---- MODULE Spec2Model ----
(***************************************************************************)
(* Patch hunk classification and test-outcome categorization engine of     *)
(* automation_script, and the change index of F2P_finder.                  *)
(*                                                                         *)
(* test_results.py: normalize_test_name, is_test_relevant_to_changes,      *)
(* categorize_tests_three_run, categorize_tests.                           *)
(* diff_parser.py: parse_diff, classify_hunk, classify_file_hunks,         *)
(* classify_all_hunks, reconstruct_patch.                                  *)
(* F2P_finder/diff_utils.py: extract_changed_modules.                      *)
(* diff_parser.py also: generate_test_patch_from_hunks,                    *)
(* generate_code_patch_from_hunks.                                         *)
(* F2P_finder/diff_utils.py, F2P_fiinder/language_rules.py,                *)
(* F2P_fiinder/infer.py: parse_patch, extract_test_ids, infer_from_patches.*)
(* container_runner.py: _deduplicate_test_outcomes.                        *)
(*                                                                         *)
(* Python strings are modelled as sequences of one-character strings, so   *)
(* that regular expressions and str methods are computed character by      *)
(* character.  Python sets and the lists built by iterating over a set are *)
(* modelled as sets (their order is the set's iteration order).  None is   *)
(* a flag of a record or the empty sequence of an optional value.          *)
(*                                                                         *)
(* Six specifications share the module; each leaves the variables of       *)
(* the others idle.                                                        *)
(*   SpecNorm   normalize_test_name applied twice to a raw test name       *)
(*   SpecCat    one call of categorize_tests / categorize_tests_three_run  *)
(*   SpecDiff   one diff through parse_diff, line by line, then            *)
(*              classify_all_hunks (at once, or hunk by hunk in any        *)
(*              order), reconstruct_patch and the two generated patches    *)
(*   SpecIndex  extract_changed_modules on the changed files of a patch,   *)
(*              then is_test_relevant_to_changes for one test              *)
(*   SpecInfer  infer_from_patches on a test patch and a code patch        *)
(*   SpecDedup  _deduplicate_test_outcomes on three outcome lists          *)
(*                                                                         *)
(* Languages: is_test_relevant_to_changes is modelled for java, python,    *)
(* javascript, typescript and the generic branch; classify_hunk for the    *)
(* pattern lists of java, javascript, typescript and d and for names       *)
(* without a list; the specialized scan for rust.                          *)
(***************************************************************************)
EXTENDS Integers, Sequences, FiniteSets, TLC

VARIABLES
    \* normalize_test_name called twice in a row
    nm_pc, test_name, name1, name2,
    \* one call of categorize_tests or categorize_tests_three_run
    cat_pc, base_result, test_patch_only_result, pr_result, patch_content,
    language, cat_result,
    \* parse_diff, classify_all_hunks and reconstruct_patch on one diff
    diff_pc, diff_content, i, files, current_file, current_hunk,
    language_hint, include_types, result_patch, generated, stage,
    \* the change index of one patch and the relevance of one test to it
    idx_pc, idx_test, idx_files, idx_language, idx_modules, idx_relevant,
    \* one call of infer_from_patches on a test patch and a code patch
    inf_pc, full_patch, test_patch, code_patch, inf_language, inf_candidates, inference,
    \* the outcome lists of one test run, their outcomes per test and the deduplicated lists
    dd_pc, passed, failed, skipped, test_outcomes, deduplicated

nm_vars == <<nm_pc, test_name, name1, name2>>
cat_inputs == <<base_result, test_patch_only_result, pr_result, patch_content, language>>
cat_vars == <<cat_pc, cat_inputs, cat_result>>
parse_vars == <<diff_content, i, files, current_file, current_hunk>>
diff_vars == <<diff_pc, parse_vars, language_hint, include_types, result_patch, generated, stage>>
idx_vars == <<idx_pc, idx_test, idx_files, idx_language, idx_modules, idx_relevant>>
inf_vars == <<inf_pc, full_patch, test_patch, code_patch, inf_language, inf_candidates, inference>>
dd_vars == <<dd_pc, passed, failed, skipped, test_outcomes, deduplicated>>
vars == <<nm_vars, cat_vars, diff_vars, idx_vars, inf_vars, dd_vars>>

-----------------------------------------------------------------------------
(* Characters and str methods *)

\* re's \s and the characters str.strip() removes (those of the alphabet used here)
IsSpace(c) == c \in {" ", "\t", "\n"}

\* re's \d
IsDigit(c) == c \in {"0", "1", "2", "3", "4", "5", "6", "7", "8", "9"}

Min(S) == CHOOSE m \in S : \A o \in S : m <= o

Max(S) == CHOOSE m \in S : \A o \in S : m >= o

\* s[a:b] with 1-based inclusive bounds; empty when a > b
Slice(s, a, b) == IF a > b THEN <<>> ELSE SubSeq(s, a, b)

RECURSIVE RStrip(_)
\* str.rstrip()
RStrip(s) ==
    IF s = <<>> THEN s
    ELSE IF IsSpace(s[Len(s)]) THEN RStrip(Slice(s, 1, Len(s) - 1))
    ELSE s

RECURSIVE LStrip(_)
\* the left half of str.strip()
LStrip(s) ==
    IF s = <<>> THEN s
    ELSE IF IsSpace(s[1]) THEN LStrip(Tail(s))
    ELSE s

\* str.strip()
Strip(s) == LStrip(RStrip(s))

-----------------------------------------------------------------------------
(* normalize_test_name, test_results.py:16-53 *)

RECURSIVE SpaceRunAt(_, _)
\* the length of the run of whitespace that starts at position k of s
SpaceRunAt(s, k) ==
    IF k > Len(s) \/ ~IsSpace(s[k]) THEN 0 ELSE 1 + SpaceRunAt(s, k + 1)

RECURSIVE DigitRunAt(_, _)
\* the length of the run of digits that starts at position k of s
DigitRunAt(s, k) ==
    IF k > Len(s) \/ ~IsDigit(s[k]) THEN 0 ELSE 1 + DigitRunAt(s, k + 1)

\* s[k:] starts with the characters of p
StartsWithAt(s, k, p) ==
    /\ k + Len(p) - 1 <= Len(s)
    /\ \A j \in 1..Len(p) : s[k + j - 1] = p[j]

\* \s+\d+\.\d+s matched against the whole of t, one part after the other; each
\* repetition is followed by a character outside its class, so the greedy
\* reading is the only one.
TimingUnit(t, k) == k = Len(t) /\ t[k] = "s"

TimingFraction(t, k, d2) == d2 >= 1 /\ TimingUnit(t, k + d2)

TimingDot(t, k) ==
    StartsWithAt(t, k, <<".">>) /\ TimingFraction(t, k + 1, DigitRunAt(t, k + 1))

TimingNumber(t, k, d1) == d1 >= 1 /\ TimingDot(t, k + d1)

TimingSpaces(t, ws) == ws >= 1 /\ TimingNumber(t, ws + 1, DigitRunAt(t, ws + 1))

\* t matches \s+\d+\.\d+s as a whole
MatchTimingSuffix(t) == TimingSpaces(t, SpaceRunAt(t, 1))

\* \s*\(\d+(?:\.\d+)?\s*m?s\) matched against the whole of t
ParenUnit(t, k) ==
    \/ StartsWithAt(t, k, <<"m", "s", ")">>) /\ k + 2 = Len(t)
    \/ StartsWithAt(t, k, <<"s", ")">>) /\ k + 1 = Len(t)

ParenSpaces(t, k) == ParenUnit(t, k + SpaceRunAt(t, k))

\* the optional fraction is taken only when digits follow the dot
ParenFraction(t, k, d2) ==
    IF StartsWithAt(t, k, <<".">>) /\ d2 >= 1
    THEN ParenSpaces(t, k + 1 + d2)
    ELSE ParenSpaces(t, k)

ParenNumber(t, k, d1) ==
    d1 >= 1 /\ ParenFraction(t, k + d1, DigitRunAt(t, k + d1 + 1))

ParenOpen(t, k) ==
    StartsWithAt(t, k, <<"(">>) /\ ParenNumber(t, k + 1, DigitRunAt(t, k + 1))

\* t matches \s*\(\d+(?:\.\d+)?\s*m?s\) as a whole
MatchParenSuffix(t) == ParenOpen(t, SpaceRunAt(t, 1) + 1)

\* s cut at the leftmost of the positions starts, or s itself if there is none
CutAt(s, starts) == IF starts = {} THEN s ELSE Slice(s, 1, Min(starts) - 1)

\* re.sub(pattern + "$", "", s) for a pattern that cannot match the empty
\* string: the leftmost position from which the rest of s matches is cut off.
\* ($ is the end of s: s has no trailing newline where this is used.)
SubSuffixTiming(s) ==
    CutAt(s, {k \in 1..Len(s) : MatchTimingSuffix(Slice(s, k, Len(s)))})

SubSuffixParen(s) ==
    CutAt(s, {k \in 1..Len(s) : MatchParenSuffix(Slice(s, k, Len(s)))})

RECURSIVE CollapseSpaces(_)
\* re.sub(r'\s{2,}', ' ', s)
CollapseSpaces(s) ==
    IF s = <<>> THEN s
    ELSE IF SpaceRunAt(s, 1) >= 2
    THEN <<" ">> \o CollapseSpaces(Slice(s, SpaceRunAt(s, 1) + 1, Len(s)))
    ELSE <<s[1]>> \o CollapseSpaces(Tail(s))

normalize_test_name(s) ==
    IF s = <<>> THEN s
    ELSE Strip(CollapseSpaces(SubSuffixParen(SubSuffixTiming(RStrip(s)))))

\* normalize_test_set, test_results.py:56-66
normalize_test_set(tests) == {normalize_test_name(t) : t \in tests}

-----------------------------------------------------------------------------
(* str and pathlib helpers of test_results.py *)

UpperChars ==
    <<"A", "B", "C", "D", "E", "F", "G", "H", "I", "J", "K", "L", "M",
      "N", "O", "P", "Q", "R", "S", "T", "U", "V", "W", "X", "Y", "Z">>

LowerChars ==
    <<"a", "b", "c", "d", "e", "f", "g", "h", "i", "j", "k", "l", "m",
      "n", "o", "p", "q", "r", "s", "t", "u", "v", "w", "x", "y", "z">>

LowerChar(c) ==
    IF \E k \in 1..Len(UpperChars) : UpperChars[k] = c
    THEN LowerChars[CHOOSE k \in 1..Len(UpperChars) : UpperChars[k] = c]
    ELSE c

\* str.lower()
ToLower(s) == [k \in 1..Len(s) |-> LowerChar(s[k])]

\* sub in s
Contains(s, sub) == \E k \in 1..(Len(s) - Len(sub) + 1) : StartsWithAt(s, k, sub)

\* s.endswith(p)
EndsWith(s, p) == Len(p) <= Len(s) /\ StartsWithAt(s, Len(s) - Len(p) + 1, p)

RECURSIVE RStripSlash(_)
RStripSlash(p) ==
    IF p # <<>> /\ p[Len(p)] = "/" THEN RStripSlash(Slice(p, 1, Len(p) - 1)) ELSE p

\* the positions of character c in s
Positions(s, c) == {k \in 1..Len(s) : s[k] = c}

\* s after the last of the positions seps, or s itself if there is none
AfterLast(s, seps) == IF seps = {} THEN s ELSE Slice(s, Max(seps) + 1, Len(s))

\* Path(p).name: the final path component (trailing slashes dropped)
PathName(p) == AfterLast(RStripSlash(p), Positions(RStripSlash(p), "/"))

\* the name without its last suffix; a dot that starts or ends the name
\* starts no suffix
StemOfName(name, dots) ==
    IF dots # {} /\ 1 < Max(dots) /\ Max(dots) < Len(name)
    THEN Slice(name, 1, Max(dots) - 1)
    ELSE name

\* Path(p).stem
PathStem(p) == StemOfName(PathName(p), Positions(PathName(p), "."))

RECURSIVE ReplaceAll(_, _)
\* s.replace(old, "") for a non-empty old
ReplaceAll(s, old) ==
    IF s = <<>> THEN s
    ELSE IF StartsWithAt(s, 1, old) THEN ReplaceAll(Slice(s, Len(old) + 1, Len(s)), old)
    ELSE <<s[1]>> \o ReplaceAll(Tail(s), old)

-----------------------------------------------------------------------------
(* The diff --git header, diff_parser.py:220 and test_results.py:82 *)

S_diff_git == <<"d", "i", "f", "f", " ", "-", "-", "g", "i", "t", " ", "a", "/">>

S_b == <<" ", "b", "/">>

\* the positions where " b/" can end the lazy first group of
\* ^diff --git a/(.+?) b/(.+?)$ : one character at least before and after it
DiffHeaderSplits(line) ==
    {k \in (Len(S_diff_git) + 2)..(Len(line) - Len(S_b)) : StartsWithAt(line, k, S_b)}

\* the line matches ^diff --git a/(.+?) b/(.+?)$
IsDiffHeader(line) ==
    StartsWithAt(line, 1, S_diff_git) /\ DiffHeaderSplits(line) # {}

\* group(1) and group(2) of the match: the lazy first group ends at the first split
DiffHeaderOld(line) ==
    Slice(line, Len(S_diff_git) + 1, Min(DiffHeaderSplits(line)) - 1)

DiffHeaderNew(line) ==
    Slice(line, Min(DiffHeaderSplits(line)) + Len(S_b), Len(line))

-----------------------------------------------------------------------------
(* Relevance of a test to the changed files, test_results.py:69-89, 221-509 *)

\* A text is the sequence of its lines, text.split('\n'): never empty, and
\* << <<>> >> for the empty string.
EmptyText == << <<>> >>

\* extract_changed_files_from_patch: the b-path of every diff --git line
extract_changed_files_from_patch(text) ==
    {DiffHeaderNew(text[k]) : k \in {j \in 1..Len(text) : IsDiffHeader(text[j])}}

S_test_ == <<"t", "e", "s", "t", "_">>

S__test == <<"_", "t", "e", "s", "t">>

S_dot_test == <<".", "t", "e", "s", "t">>

S_dot_spec == <<".", "s", "p", "e", "c">>

\* test_results.py:342-349: one changed file of the python branch
PythonStemMatches(test_name_lower, file_stem) ==
    /\ Len(file_stem) > 3
    /\ \/ Contains(test_name_lower, S_test_ \o file_stem)
       \/ Contains(test_name_lower, file_stem \o S__test)
       \/ Contains(test_name_lower, file_stem)

\* test_results.py:362 and 506: one changed file of the js/ts and generic branches
StemMatches(test_name_lower, file_stem) ==
    Len(file_stem) > 3 /\ Contains(test_name_lower, file_stem)

\* the python branch, test_results.py:335-351
RelevantPython(name, changed_files) ==
    \E f \in changed_files : PythonStemMatches(ToLower(name), ToLower(PathStem(f)))

\* the javascript/typescript branch, test_results.py:353-365
RelevantJs(name, changed_files) ==
    \E f \in changed_files :
        StemMatches(ToLower(name),
                    ReplaceAll(ReplaceAll(ToLower(PathStem(f)), S_dot_test), S_dot_spec))

\* the generic branch, test_results.py:501-509
RelevantGeneric(name, changed_files) ==
    \E f \in changed_files : StemMatches(ToLower(name), ToLower(PathStem(f)))

RECURSIVE Split(_, _)
\* s.split(c) for a one-character separator: never empty
Split(s, c) ==
    IF Positions(s, c) = {} THEN <<s>>
    ELSE <<Slice(s, 1, Min(Positions(s, c)) - 1)>>
         \o Split(Slice(s, Min(Positions(s, c)) + 1, Len(s)), c)

\* the set of the items of a list
ItemsOf(parts) == {parts[k] : k \in 1..Len(parts)}

\* s.replace("\\", "/")
SlashPath(s) == [k \in 1..Len(s) |-> IF s[k] = "\\" THEN "/" ELSE s[k]]

\* test_results.py:250: the text before the first "#"
TestClassFull(name) == Split(name, "#")[1]

\* test_results.py:251: the text between the first "#" and the next
TestMethod(name) == IF Positions(name, "#") # {} THEN Split(name, "#")[2] ELSE <<>>

\* test_results.py:252-253: the text after the last "."
TestClassName(name) == AfterLast(TestClassFull(name), Positions(TestClassFull(name), "."))

\* test_results.py:254: the text before the last ".", empty without a "."
TestPackage(name) ==
    IF Positions(TestClassFull(name), ".") = {} THEN <<>>
    ELSE Slice(TestClassFull(name), 1, Max(Positions(TestClassFull(name), ".")) - 1)

S_IT == <<"I", "T">>

S_IntegrationTest == <<"I", "n", "t", "e", "g", "r", "a", "t", "i", "o", "n", "T", "e", "s", "t">>

\* test_results.py:259
JavaTestSuffixes == <<<<"T", "e", "s", "t">>, <<"T", "e", "s", "t", "s">>, S_IT, S_IntegrationTest, <<"U", "n", "i", "t", "T", "e", "s", "t">>>>

\* the suffixes the class name ends with, by their place in the list
EndingSuffixes(class_name) ==
    {k \in 1..Len(JavaTestSuffixes) : EndsWith(class_name, JavaTestSuffixes[k])}

\* test_results.py:257-264: the first suffix of the list that ends the name is removed
BaseClassBeingTested(class_name) ==
    IF EndingSuffixes(class_name) = {} THEN class_name
    ELSE Slice(class_name, 1,
               Len(class_name) - Len(JavaTestSuffixes[Min(EndingSuffixes(class_name))]))

\* test_results.py:258-262: set when the removed suffix is IT or IntegrationTest
IsIntegrationTest(class_name) ==
    /\ EndingSuffixes(class_name) # {}
    /\ JavaTestSuffixes[Min(EndingSuffixes(class_name))] \in {S_IT, S_IntegrationTest}

\* test_results.py:267-278: a changed file is the class being tested
JavaClassMatches(class_name, changed_files) ==
    \E f \in changed_files :
        \/ PathStem(f) = BaseClassBeingTested(class_name)
        \/ Len(PathStem(f)) > 3 /\ Contains(class_name, PathStem(f))

\* test_results.py:281-284: the test file itself was changed
JavaTestFileChanged(class_name, changed_files) ==
    \E f \in changed_files : PathStem(f) = class_name

\* test_results.py:294 and 308-309
PathParts(changed_file) == Split(SlashPath(ToLower(changed_file)), "/")

\* test_results.py:297
GenericPathParts == {<<"s", "r", "c">>, <<"m", "a", "i", "n">>, <<"t", "e", "s", "t">>, <<"j", "a", "v", "a">>, <<"k", "o", "t", "l", "i", "n">>, <<"r", "e", "s", "o", "u", "r", "c", "e", "s">>, <<>>}

\* test_results.py:289-301, Check 1: the method name holds a keyword of a changed path
JavaMethodKeyword(test_method, changed_files) ==
    /\ test_method # <<>>
    /\ \E f \in changed_files : \E part \in ItemsOf(PathParts(f)) \ GenericPathParts :
           Len(part) > 3 /\ Contains(ToLower(test_method), part)

\* test_results.py:311
CommonParts == {<<"s", "r", "c">>, <<"m", "a", "i", "n">>, <<"t", "e", "s", "t">>, <<"j", "a", "v", "a">>, <<"k", "o", "t", "l", "i", "n">>, <<"r", "e", "s", "o", "u", "r", "c", "e", "s">>, <<"o", "r", "g">>, <<"c", "o", "m">>}

\* test_results.py:312-314
PackageOverlap(test_package, changed_file) ==
    (ItemsOf(Split(ToLower(test_package), ".")) \ CommonParts)
        \cap (ItemsOf(PathParts(changed_file)) \ CommonParts)

\* test_results.py:303-316, Check 2: package path overlap
JavaPackageOverlap(test_package, changed_files) ==
    /\ test_package # <<>>
    /\ \E f \in changed_files : Cardinality(PackageOverlap(test_package, f)) >= 2

\* test_results.py:324-325: a changed source file
IsSourceFile(f) ==
    \/ Contains(SlashPath(f), <<"/", "s", "r", "c", "/", "m", "a", "i", "n", "/">>)
    \/ /\ ~Contains(SlashPath(f), <<"/", "t", "e", "s", "t", "/">>)
       /\ EndsWith(f, <<".", "j", "a", "v", "a">>) \/ EndsWith(f, <<".", "k", "t">>)

\* test_results.py:318-331, Check 3: an integration test and three changed sources
JavaIntegration(class_name, test_package, changed_files) ==
    /\ \/ IsIntegrationTest(class_name)
       \/ Contains(ToLower(test_package), <<"i", "t", "e", "s", "t">>)
       \/ Contains(ToLower(class_name), <<"i", "n", "t", "e", "g", "r", "a", "t", "i", "o", "n">>)
    /\ Cardinality({f \in changed_files : IsSourceFile(f)}) >= 3

\* faulty variant: one shared package component is enough
RelevantJava_PackageAlone(name, changed_files) ==
    \/ JavaClassMatches(TestClassName(name), changed_files)
    \/ JavaTestFileChanged(TestClassName(name), changed_files)
    \/ JavaMethodKeyword(TestMethod(name), changed_files)
    \/ /\ TestPackage(name) # <<>>
       /\ \E f \in changed_files : PackageOverlap(TestPackage(name), f) # {}
    \/ JavaIntegration(TestClassName(name), TestPackage(name), changed_files)

\* the java branch, test_results.py:247-333
RelevantJava(name, changed_files) ==
    \/ JavaClassMatches(TestClassName(name), changed_files)
    \/ JavaTestFileChanged(TestClassName(name), changed_files)
    \/ JavaMethodKeyword(TestMethod(name), changed_files)
    \/ JavaPackageOverlap(TestPackage(name), changed_files)
    \/ JavaIntegration(TestClassName(name), TestPackage(name), changed_files)

\* is_test_relevant_to_changes, which never reads changed_modules (the php and
\* ruby branches are not modelled: no input names these languages)
is_test_relevant_to_changes(name, changed_files, lang) ==
    IF lang = "java" THEN RelevantJava(name, changed_files)
    ELSE IF lang = "python" THEN RelevantPython(name, changed_files)
    ELSE IF lang \in {"javascript", "typescript"} THEN RelevantJs(name, changed_files)
    ELSE RelevantGeneric(name, changed_files)

-----------------------------------------------------------------------------
(* Run reports.  A report is None or a dict; d maps the keys the dict has   *)
(* to their values (name lists, read through set()).                        *)

NoneResult == [isNone |-> TRUE, d |-> <<>>]

DictResult(d) == [isNone |-> FALSE, d |-> d]

\* faulty variant: only None counts as missing
Truthy_NotNone(result) == ~result.isNone

\* bool(result): None and {} are false
Truthy(result) == ~result.isNone /\ DOMAIN result.d # {}

\* result.get(key, result.get(alt, []))
GetList(result, key, alt) ==
    IF key \in DOMAIN result.d THEN result.d[key]
    ELSE IF alt \in DOMAIN result.d THEN result.d[alt]
    ELSE {}

PassedOf(result) == normalize_test_set(GetList(result, "tests_passed", "passed"))

FailedOf(result) == normalize_test_set(GetList(result, "tests_failed", "failed"))

\* A patch is None or a text; bool(patch_content) is false for None and ""
NonePatch == [isNone |-> TRUE, text |-> EmptyText]

TextPatch(text) == [isNone |-> FALSE, text |-> text]

PatchGiven(patch) == ~patch.isNone /\ patch.text # EmptyText

-----------------------------------------------------------------------------
(* categorize_tests_three_run, test_results.py:512-695 *)

\* faulty variant: every test that failed with the test patch alone, passing later or not
ValidatedFailToPass_AnyFailed(run2_failed, run3_passed) == run2_failed

\* test_results.py:606-612: failed with the test patch alone, passes with the full patch
ValidatedFailToPass(run2_failed, run3_passed) ==
    {t \in run3_passed : t \in run2_failed}

\* faulty variant: a test that failed in the base run counts even if it also passed there
FallbackFailToPass_MixedCounts(run1_passed, run1_failed, run3_passed) ==
    {t \in run3_passed : t \in run1_failed \/ t \notin run1_passed}

\* test_results.py:623-633: failed only, or not run at all, in the base run
FallbackFailToPass(run1_passed, run1_failed, run3_passed) ==
    {t \in run3_passed :
        \/ t \in run1_failed /\ t \notin run1_passed
        \/ t \notin run1_passed /\ t \notin run1_failed}

\* test_results.py:606-633: validated with a run 2, the fallback without
ThreeRunFailToPass(has_run2, run1_passed, run1_failed, run2_failed, run3_passed) ==
    IF has_run2
    THEN ValidatedFailToPass(run2_failed, run3_passed)
    ELSE FallbackFailToPass(run1_passed, run1_failed, run3_passed)

\* faulty variant: fail_to_pass is not subtracted from the candidates
ThreeRunCandidates_NoSubtract(run1_passed, run3_passed, f2p_set) ==
    run1_passed \cap run3_passed

\* faulty variant: passing in the full run is not required of a candidate
ThreeRunCandidates_BaseOnly(run1_passed, run3_passed, f2p_set) ==
    run1_passed \ f2p_set

\* test_results.py:644-650
ThreeRunCandidates(run1_passed, run3_passed, f2p_set) ==
    (run1_passed \cap run3_passed) \ f2p_set

\* test_results.py:662-665
FilterByFiles(candidates, changed_files, lang) ==
    {t \in candidates : is_test_relevant_to_changes(t, changed_files, lang)}

\* faulty variant: the filter is applied without patch content too, on no changed file
FilterRelevant_NoFallback(candidates, patch, lang) ==
    FilterByFiles(candidates, extract_changed_files_from_patch(patch.text), lang)

\* test_results.py:652-672: the relevance filter, or every candidate when no
\* patch content is given
FilterRelevant(candidates, patch, lang) ==
    IF PatchGiven(patch)
    THEN FilterByFiles(candidates, extract_changed_files_from_patch(patch.text), lang)
    ELSE candidates

Categorization(f2p, p2p) == [fail_to_pass |-> f2p, pass_to_pass |-> p2p]

\* test_results.py:641-695, given fail_to_pass
ThreeRunPassToPass(run1_passed, run3_passed, f2p, patch, lang) ==
    Categorization(f2p,
        FilterRelevant(ThreeRunCandidates(run1_passed, run3_passed, f2p), patch, lang))

\* test_results.py:603-695, given the normalized sets of the runs
ThreeRunSets(has_run2, run1_passed, run1_failed, run2_failed, run3_passed, patch, lang) ==
    ThreeRunPassToPass(run1_passed, run3_passed,
        ThreeRunFailToPass(has_run2, run1_passed, run1_failed, run2_failed, run3_passed),
        patch, lang)

categorize_tests_three_run(run1_result, run2_result, run3_result, patch, lang) ==
    IF ~Truthy(run1_result) \/ ~Truthy(run3_result)
    THEN Categorization({}, {})
    ELSE ThreeRunSets(Truthy(run2_result),
                      PassedOf(run1_result), FailedOf(run1_result),
                      IF Truthy(run2_result) THEN FailedOf(run2_result) ELSE {},
                      PassedOf(run3_result), patch, lang)

-----------------------------------------------------------------------------
(* categorize_tests, test_results.py:698-817 *)

\* faulty variant: a test that failed in the base run counts even if it also passed there
LegacyFailToPass_MixedCounts(base_passed, base_failed, pr_passed) ==
    {t \in pr_passed : t \in base_failed \/ t \notin base_passed}

\* test_results.py:774-780
LegacyFailToPass(base_passed, base_failed, pr_passed) ==
    {t \in pr_passed :
        \/ t \in base_failed /\ t \notin base_passed
        \/ t \notin base_passed /\ t \notin base_failed}

\* test_results.py:784: the legacy candidates, fail_to_pass not subtracted
LegacyCandidates(base_passed, pr_passed) == base_passed \cap pr_passed

\* test_results.py:799-803
LegacyFilterByFiles(candidates, changed_files, lang) ==
    {t \in candidates : is_test_relevant_to_changes(t, changed_files, lang)}

\* test_results.py:786-810
LegacyFilterRelevant(candidates, patch, lang) ==
    IF PatchGiven(patch)
    THEN LegacyFilterByFiles(candidates, extract_changed_files_from_patch(patch.text), lang)
    ELSE candidates

\* test_results.py:764-817, given the normalized sets of the runs
LegacySets(base_passed, base_failed, pr_passed, patch, lang) ==
    Categorization(LegacyFailToPass(base_passed, base_failed, pr_passed),
        LegacyFilterRelevant(LegacyCandidates(base_passed, pr_passed), patch, lang))

categorize_tests(base, pr, patch, lang, test_patch_only) ==
    IF ~test_patch_only.isNone
    THEN categorize_tests_three_run(base, test_patch_only, pr, patch, lang)
    ELSE IF ~Truthy(base) \/ ~Truthy(pr)
    THEN Categorization({}, {})
    ELSE LegacySets(PassedOf(base), FailedOf(base), PassedOf(pr), patch, lang)

-----------------------------------------------------------------------------
(* Inputs of normalize_test_name: a base name followed by up to MaxSuffixes *)
(* pieces, each a duration suffix in one of the documented forms or other   *)
(* trailing text.                                                           *)

MaxSuffixes == 2

BaseNames ==
    { <<>>,
      <<"a">>,
      <<"a", " ", " ", "b">>,
      <<" ", "a", "\t", "b">> }

\* whitespace-prefixed duration suffixes: "N.NNs", "(Nms)", "(N.NNs)"
DurationSuffixes ==
    { <<" ", "0", ".", "1", "s">>,
      <<" ", " ", "1", "2", ".", "3", "4", "s">>,
      <<" ", "(", "1", "2", "m", "s", ")">>,
      <<" ", "(", "1", ".", "2", "s", ")">> }

OtherPieces ==
    { <<"(", "3", " ", "m", "s", ")">>,
      <<" ", "1", "s">>,
      <<" ", "(", "m", "s", ")">>,
      <<" ">>,
      <<" ", " ", "c">> }

Pieces == DurationSuffixes \cup OtherPieces

RECURSIVE WithPieces(_)
\* the base names followed by at most k pieces
WithPieces(k) ==
    IF k = 0 THEN BaseNames
    ELSE LET shorter == WithPieces(k - 1)
         IN  shorter \cup {n \o p : n \in shorter, p \in Pieces}

TestNameInputs == WithPieces(MaxSuffixes)

-----------------------------------------------------------------------------
(* normalize_test_name applied to an input, then to its own result *)

\* the variables of the categorizer, not used by this specification
CatIdle ==
    /\ cat_pc = "idle"
    /\ base_result = NoneResult
    /\ test_patch_only_result = NoneResult
    /\ pr_result = NoneResult
    /\ patch_content = NonePatch
    /\ language = "python"
    /\ cat_result = Categorization({}, {})

\* the patches of generate_test_patch_from_hunks and generate_code_patch_from_hunks,
\* each <<>> before its call and <<patch>> after it
NoPatches == [test |-> <<>>, code |-> <<>>]

\* the hunks that concurrent classification has given their content labels
\* (scored) and their final labels (done), as (file place, hunk place)
NoStage == [scored |-> {}, done |-> {}]

NmIdle ==
    /\ nm_pc = "idle"
    /\ test_name = <<>>
    /\ name1 = <<>>
    /\ name2 = <<>>

\* the variables of the diff parser, not used by this specification
DiffIdle ==
    /\ diff_pc = "idle"
    /\ diff_content = <<>>
    /\ i = 0
    /\ files = <<>>
    /\ current_file = <<>>
    /\ current_hunk = <<>>
    /\ language_hint = <<>>
    /\ include_types = {}
    /\ result_patch = <<>>
    /\ generated = NoPatches
    /\ stage = NoStage

\* the variables of the change index, not used by this specification
IdxIdle ==
    /\ idx_pc = "idle"
    /\ idx_test = <<>>
    /\ idx_files = {}
    /\ idx_language = "python"
    /\ idx_modules = {}
    /\ idx_relevant = FALSE

\* the variables of the patch-only inference, not used by this specification
InfIdle ==
    /\ inf_pc = "idle"
    /\ full_patch = <<>>
    /\ test_patch = <<>>
    /\ code_patch = <<>>
    /\ inf_language = <<>>
    /\ inf_candidates = {}
    /\ inference = [fail_to_pass_predicted |-> {}, pass_to_pass_predicted |-> {},
                    candidate_count |-> 0]

\* the variables of the outcome deduplication, not used by this specification
DdIdle ==
    /\ dd_pc = "idle"
    /\ passed = <<>>
    /\ failed = <<>>
    /\ skipped = <<>>
    /\ test_outcomes = <<>>
    /\ deduplicated = [passed |-> <<>>, failed |-> <<>>, skipped |-> <<>>]

NormInit ==
    /\ nm_pc = "raw"
    /\ test_name \in TestNameInputs
    /\ name1 = <<>>
    /\ name2 = <<>>
    /\ CatIdle
    /\ DiffIdle
    /\ IdxIdle
    /\ InfIdle
    /\ DdIdle

Normalize ==
    /\ nm_pc = "raw"
    /\ name1' = normalize_test_name(test_name)
    /\ nm_pc' = "once"
    /\ UNCHANGED <<test_name, name2, cat_vars, diff_vars, idx_vars, inf_vars, dd_vars>>

NormalizeAgain ==
    /\ nm_pc = "once"
    /\ name2' = normalize_test_name(name1)
    /\ nm_pc' = "twice"
    /\ UNCHANGED <<test_name, name1, cat_vars, diff_vars, idx_vars, inf_vars, dd_vars>>

NormNext == Normalize \/ NormalizeAgain

SpecNorm == NormInit /\ [][NormNext]_vars

-----------------------------------------------------------------------------
(* Inputs of the categorizer *)

\* the number of names the three run reports of a call list, all lists together
MaxListed == 3

N_core == <<"c", "o", "r", "e">>

N_core_timed == <<"c", "o", "r", "e", " ", "0", ".", "1", "s">>

N_Ui == <<"U", "i", "T", "e", "s", "t">>

RawNames == {N_core, N_core_timed, N_Ui}

\* the (passed, failed) lists of a report; a name may be in both
Outcomes == (SUBSET RawNames) \X (SUBSET RawNames)

\* None, {}, a dict without lists, a dict with the passed list alone, a dict
\* with both lists, and a dict with both spellings of the passed key
Results ==
    {NoneResult, DictResult(<<>>), DictResult([k \in {"exit_code"} |-> 0])}
    \cup {DictResult([k \in {"passed"} |-> pf[1]]) : pf \in Outcomes}
    \cup {DictResult([k \in {"passed", "failed"} |->
                        IF k = "passed" THEN pf[1] ELSE pf[2]]) : pf \in Outcomes}
    \cup {DictResult([k \in {"tests_passed", "tests_failed", "passed"} |->
                        IF k = "tests_passed" THEN {N_core}
                        ELSE IF k = "tests_failed" THEN {} ELSE {N_Ui}])}

ListedUnder(r, key) == IF key \in DOMAIN r.d THEN Cardinality(r.d[key]) ELSE 0

\* the number of names the lists of report r hold
Listed(r) ==
    ListedUnder(r, "passed") + ListedUnder(r, "failed")
    + ListedUnder(r, "tests_passed") + ListedUnder(r, "tests_failed")

ResultsUpTo(k) == {r \in Results : Listed(r) <= k}

L_core_py ==
    <<"d", "i", "f", "f", " ", "-", "-", "g", "i", "t", " ", "a", "/", "s", "r", "c", "/",
      "C", "o", "r", "e", ".", "p", "y", " ", "b", "/", "s", "r", "c", "/",
      "C", "o", "r", "e", ".", "p", "y">>

L_core_test_ts ==
    <<"d", "i", "f", "f", " ", "-", "-", "g", "i", "t", " ", "a", "/",
      "c", "o", "r", "e", ".", "t", "e", "s", "t", ".", "t", "s", " ", "b", "/",
      "c", "o", "r", "e", ".", "t", "e", "s", "t", ".", "t", "s">>

L_ui_go ==
    <<"d", "i", "f", "f", " ", "-", "-", "g", "i", "t", " ", "a", "/", "u", "i", ".", "g", "o",
      " ", "b", "/", "u", "i", ".", "g", "o">>

L_plus == <<"+", "x">>

\* the patch content and the language of a call
Changes ==
    { <<NonePatch, "python">>,
      <<TextPatch(EmptyText), "go">>,
      <<TextPatch(<<L_core_py, L_plus>>), "python">>,
      <<TextPatch(<<L_core_test_ts>>), "typescript">>,
      <<TextPatch(<<L_plus, L_ui_go>>), "go">> }

Languages == {c[2] : c \in Changes}

-----------------------------------------------------------------------------
(* One call of the categorizer *)

CatInit ==
    /\ cat_pc = "call"
    /\ base_result \in ResultsUpTo(MaxListed)
    /\ test_patch_only_result \in ResultsUpTo(MaxListed - Listed(base_result))
    /\ pr_result \in
           ResultsUpTo(MaxListed - Listed(base_result) - Listed(test_patch_only_result))
    /\ \E c \in Changes : patch_content = c[1] /\ language = c[2]
    /\ cat_result = Categorization({}, {})
    /\ NmIdle
    /\ DiffIdle
    /\ IdxIdle
    /\ InfIdle
    /\ DdIdle

\* categorize_tests with a test-only result: the three-run categorization
CategorizeThreeRun ==
    /\ cat_pc = "call"
    /\ ~test_patch_only_result.isNone
    /\ cat_result' = categorize_tests(base_result, pr_result, patch_content, language,
                                 test_patch_only_result)
    /\ cat_pc' = "three_run"
    /\ UNCHANGED <<cat_inputs, nm_vars, diff_vars, idx_vars, inf_vars, dd_vars>>

\* categorize_tests without a test-only result: the legacy two-run categorization
CategorizeLegacy ==
    /\ cat_pc = "call"
    /\ test_patch_only_result.isNone
    /\ cat_result' = categorize_tests(base_result, pr_result, patch_content, language,
                                 test_patch_only_result)
    /\ cat_pc' = "legacy"
    /\ UNCHANGED <<cat_inputs, nm_vars, diff_vars, idx_vars, inf_vars, dd_vars>>

\* categorize_tests_three_run called with run2_result = None
CategorizeThreeRunNoRun2 ==
    /\ cat_pc = "call"
    /\ test_patch_only_result.isNone
    /\ cat_result' = categorize_tests_three_run(base_result, test_patch_only_result, pr_result,
                                           patch_content, language)
    /\ cat_pc' = "three_run"
    /\ UNCHANGED <<cat_inputs, nm_vars, diff_vars, idx_vars, inf_vars, dd_vars>>

CatNext == CategorizeThreeRun \/ CategorizeLegacy \/ CategorizeThreeRunNoRun2

SpecCat == CatInit /\ [][CatNext]_vars

-----------------------------------------------------------------------------
(* Properties of the categorizer, checked under SpecCat *)

Called == cat_pc # "call"

F2P == cat_result.fail_to_pass

P2P == cat_result.pass_to_pass

\* the three-run categorization validated by a test-only run
ValidatedCall == cat_pc = "three_run" /\ Truthy(test_patch_only_result)

\* the fallback of either function: no test-only run (None or empty)
FallbackCall == Called /\ ~Truthy(test_patch_only_result)

BothRunsPresent == Truthy(base_result) /\ Truthy(pr_result)

\* C1: in every run mode and for every input, reports listing a name as both
\* passed and failed included, FAIL_TO_PASS and PASS_TO_PASS have no name in common.
C1_Disjoint == Called => F2P \cap P2P = {}

\* a validated FAIL_TO_PASS test that also passed in the base run and the full
\* run: a candidate of both sets
C1_Witness ==
    /\ ValidatedCall
    /\ \E t \in F2P : t \in PassedOf(base_result) /\ t \in PassedOf(pr_result)

\* C2: with a test-only run, FAIL_TO_PASS is exactly the names in full.passed
\* and in testOnly.failed, whatever the lists of the base report hold.
C2_ValidatedF2P ==
    (ValidatedCall /\ BothRunsPresent)
        => F2P = {t \in PassedOf(pr_result) : t \in FailedOf(test_patch_only_result)}

\* FAIL_TO_PASS holds a test the base report lists as passed, not as failed
C2_Witness ==
    /\ ValidatedCall
    /\ \E t \in F2P : t \in PassedOf(base_result) /\ t \notin FailedOf(base_result)

\* C3: without a test-only run (None or empty), FAIL_TO_PASS is the tests of
\* full.passed that failed only, or were not run, in the base run: every test
\* that passes in the full run and did not pass in the base run.
C3_FallbackF2P ==
    (FallbackCall /\ BothRunsPresent)
        => /\ F2P = {t \in PassedOf(pr_result) :
                        \/ t \in FailedOf(base_result) /\ t \notin PassedOf(base_result)
                        \/ t \notin PassedOf(base_result) /\ t \notin FailedOf(base_result)}
           /\ F2P = PassedOf(pr_result) \ PassedOf(base_result)

\* the fallback inside categorize_tests_three_run, reached with an empty
\* test-only report, finds a test that failed in the base run
C3_Witness ==
    /\ cat_pc = "three_run"
    /\ ~test_patch_only_result.isNone
    /\ ~Truthy(test_patch_only_result)
    /\ \E t \in F2P : t \in FailedOf(base_result)

\* C4: in every run mode, PASS_TO_PASS is exactly the names of
\* (baseline.passed \cap full.passed) minus FAIL_TO_PASS that are relevant to the
\* changed files of the patch, or all of them when no patch content is given.
C4_PassToPass ==
    Called =>
        P2P = {t \in (PassedOf(base_result) \cap PassedOf(pr_result)) \ F2P :
                  \/ ~PatchGiven(patch_content)
                  \/ is_test_relevant_to_changes(t,
                         extract_changed_files_from_patch(patch_content.text), language)}

\* without patch content, a candidate is kept that the relevance filter of
\* some patch would drop
C4_Witness ==
    /\ Called
    /\ ~PatchGiven(patch_content)
    /\ \E t \in P2P : \E c \in Changes :
           /\ PatchGiven(c[1])
           /\ ~is_test_relevant_to_changes(t, extract_changed_files_from_patch(c[1].text), c[2])

\* C5 as stated: a name in baseline.passed and in full.failed is in neither set.
C5_RegressionExcluded ==
    Called => \A t \in PassedOf(base_result) \cap FailedOf(pr_result) :
                  t \notin F2P \cup P2P

\* C5 amended: a name in baseline.passed and in full.failed that the full
\* report does not also list as passed is in neither set.
C5_FailedOnlyRegressionExcluded ==
    Called => \A t \in (PassedOf(base_result) \cap FailedOf(pr_result)) \ PassedOf(pr_result) :
                  t \notin F2P \cup P2P

\* a regression that fails with the test patch alone too
C5_Witness ==
    /\ ValidatedCall
    /\ \E t \in (PassedOf(base_result) \cap FailedOf(pr_result)) \ PassedOf(pr_result) :
           t \in FailedOf(test_patch_only_result)

\* report r with duration suffix s added to the name n of its list key
WithSuffix(r, key, n, s) ==
    DictResult([k \in DOMAIN r.d |->
                  IF k = key THEN (r.d[k] \ {n}) \cup {n \o s} ELSE r.d[k]])

ListKeys == {"passed", "failed", "tests_passed", "tests_failed"}

\* the (key, name) pairs of the lists of report r
ListedNames(r) ==
    IF r.isNone THEN {}
    ELSE {kn \in (ListKeys \cap DOMAIN r.d) \X RawNames : kn[2] \in r.d[kn[1]]}

\* C8 as stated: normalizing a normalized name returns it unchanged.
C8_Idempotent == nm_pc = "twice" => name2 = name1

\* C9 as stated: a name and the name with one duration suffix appended
\* normalize to the same name, and appending the suffix to a name of the base,
\* test-only or full report leaves the result of categorize_tests unchanged.
C9_SuffixIgnored ==
    (cat_pc = "legacy" \/ (cat_pc = "three_run" /\ ~test_patch_only_result.isNone))
    => \A s \in DurationSuffixes :
          /\ \A kn \in ListedNames(base_result) :
                /\ normalize_test_name(kn[2] \o s) = normalize_test_name(kn[2])
                /\ categorize_tests(WithSuffix(base_result, kn[1], kn[2], s), pr_result,
                                    patch_content, language, test_patch_only_result)
                   = cat_result
          /\ \A kn \in ListedNames(test_patch_only_result) :
                /\ normalize_test_name(kn[2] \o s) = normalize_test_name(kn[2])
                /\ categorize_tests(base_result, pr_result, patch_content, language,
                                    WithSuffix(test_patch_only_result, kn[1], kn[2], s))
                   = cat_result
          /\ \A kn \in ListedNames(pr_result) :
                /\ normalize_test_name(kn[2] \o s) = normalize_test_name(kn[2])
                /\ categorize_tests(base_result, WithSuffix(pr_result, kn[1], kn[2], s),
                                    patch_content, language, test_patch_only_result)
                   = cat_result

-----------------------------------------------------------------------------
(* The line patterns of parse_diff, diff_parser.py:219-226 and 255-259 *)

StartsWith(s, p) == StartsWithAt(s, 1, p)

RECURSIVE DigitsValue(_)
\* int() of a string of digits
DigitsValue(s) ==
    IF s = <<>> THEN 0
    ELSE 10 * DigitsValue(Slice(s, 1, Len(s) - 1))
         + (CHOOSE v \in 0..9 : ToString(v) = s[Len(s)])

\* the prefixes of the extended header lines
ExtendedHeaderPrefixes ==
    { <<"i", "n", "d", "e", "x", " ">>, <<"o", "l", "d", " ", "m", "o", "d", "e", " ">>, <<"n", "e", "w", " ", "m", "o", "d", "e", " ">>, <<"n", "e", "w", " ", "f", "i", "l", "e", " ", "m", "o", "d", "e", " ">>,
      <<"d", "e", "l", "e", "t", "e", "d", " ", "f", "i", "l", "e", " ", "m", "o", "d", "e", " ">>, <<"s", "i", "m", "i", "l", "a", "r", "i", "t", "y", " ", "i", "n", "d", "e", "x", " ">>, <<"r", "e", "n", "a", "m", "e", " ", "f", "r", "o", "m", " ">>,
      <<"r", "e", "n", "a", "m", "e", " ", "t", "o", " ">>, <<"c", "o", "p", "y", " ", "f", "r", "o", "m", " ">>, <<"c", "o", "p", "y", " ", "t", "o", " ">> }

IsExtendedHeader(line) == \E p \in ExtendedHeaderPrefixes : StartsWith(line, p)

S_new_file_mode == <<"n", "e", "w", " ", "f", "i", "l", "e", " ", "m", "o", "d", "e">>

S_deleted_file_mode == <<"d", "e", "l", "e", "t", "e", "d", " ", "f", "i", "l", "e", " ", "m", "o", "d", "e">>

S_Binary_files == <<"B", "i", "n", "a", "r", "y", " ", "f", "i", "l", "e", "s", " ">>

S_differ == <<" ", "d", "i", "f", "f", "e", "r">>

\* ^Binary files .+ differ$
IsBinaryMarker(line) ==
    /\ StartsWith(line, S_Binary_files)
    /\ EndsWith(line, S_differ)
    /\ Len(line) > Len(S_Binary_files) + Len(S_differ)

S_dev_null == <<"/", "d", "e", "v", "/", "n", "u", "l", "l">>

\* group 1 of ^<marker> (?:<prefix>)?(.+)$ on a matching line: the optional
\* prefix is taken only if a character is left for the group
PathAfter(line, prefix) ==
    IF StartsWithAt(line, 5, prefix) /\ Len(line) > 4 + Len(prefix)
    THEN Slice(line, 5 + Len(prefix), Len(line))
    ELSE Slice(line, 5, Len(line))

\* ^--- (?:a/)?(.+)$
IsOldFileLine(line) == StartsWith(line, <<"-", "-", "-", " ">>) /\ Len(line) > 4

OldFilePath(line) == PathAfter(line, <<"a", "/">>)

\* ^\+\+\+ (?:b/)?(.+)$
IsNewFileLine(line) == StartsWith(line, <<"+", "+", "+", " ">>) /\ Len(line) > 4

NewFilePath(line) == PathAfter(line, <<"b", "/">>)

\* the length of (?:,(\d+))? at position p of the line
CountLen(line, p) ==
    IF StartsWithAt(line, p, <<",">>) /\ DigitRunAt(line, p + 1) >= 1
    THEN 1 + DigitRunAt(line, p + 1)
    ELSE 0

\* int(group or 1) for the optional count at position p
CountValue(line, p) ==
    IF CountLen(line, p) = 0 THEN 1
    ELSE DigitsValue(Slice(line, p + 1, p + CountLen(line, p) - 1))

\* ^@@ -(\d+)(?:,(\d+))? \+(\d+)(?:,(\d+))? @@(.*)$ from the new start at
\* position q on, with the old start and count already read
HunkHeaderNew(line, old_start, old_count, q, d) ==
    IF d >= 1 /\ StartsWithAt(line, q + d + CountLen(line, q + d), <<" ", "@", "@">>)
    THEN << [old_start |-> old_start,
             old_count |-> old_count,
             new_start |-> DigitsValue(Slice(line, q, q + d - 1)),
             new_count |-> CountValue(line, q + d),
             context |-> Strip(Slice(line, q + d + CountLen(line, q + d) + 3, Len(line)))] >>
    ELSE <<>>

\* the same from the end p of the old start on
HunkHeaderOld(line, p) ==
    IF StartsWithAt(line, p + CountLen(line, p), <<" ", "+">>)
    THEN HunkHeaderNew(line, DigitsValue(Slice(line, 5, p - 1)), CountValue(line, p),
                       p + CountLen(line, p) + 2,
                       DigitRunAt(line, p + CountLen(line, p) + 2))
    ELSE <<>>

\* hunk_header_pattern.match(line): <<>> for no match, else the groups
HunkHeaderMatch(line) ==
    IF StartsWith(line, <<"@", "@", " ", "-">>) /\ DigitRunAt(line, 5) >= 1
    THEN HunkHeaderOld(line, 5 + DigitRunAt(line, 5))
    ELSE <<>>

\* the test of lines 317-321 for a line of hunk content
IsContentLine(line) ==
    \/ line = <<>>
    \/ line[1] \in {"+", "-", " ", "\\"}

-----------------------------------------------------------------------------
(* parse_diff, diff_parser.py:195-333 *)

\* An optional object is <<>> for None, else <<object>>.

\* HunkType, diff_parser.py:25-30
HunkTypes == {"test", "code", "mixed", "unknown"}

\* a confidence is a fraction <<numerator, denominator>> in lowest terms
ConfidenceZero == <<0, 1>>

\* DiffHunk(...), diff_parser.py:33-60 and 303-311
DiffHunk(line, groups) ==
    [header |-> line,
     old_start |-> groups.old_start, old_count |-> groups.old_count,
     new_start |-> groups.new_start, new_count |-> groups.new_count,
     context |-> groups.context,
     lines |-> <<>>,
     hunk_type |-> "unknown",
     confidence |-> ConfidenceZero]

\* FileDiff(...), diff_parser.py:89-118 and 245-249
FileDiff(line) ==
    [old_path |-> DiffHeaderOld(line),
     new_path |-> DiffHeaderNew(line),
     header_lines |-> <<line>>,
     hunks |-> <<>>,
     extended_header |-> <<>>,
     is_binary |-> FALSE,
     is_new_file |-> FALSE,
     is_deleted |-> FALSE]

\* faulty variant: the current hunk is not appended to the file that is closed
WithCurrentHunk_Dropped(file, hunk) == file

\* the file with the current hunk, if any, appended to its hunks
WithCurrentHunk(file, hunk) ==
    IF hunk = <<>> THEN file ELSE [file EXCEPT !.hunks = Append(@, hunk[1])]

\* not diff_content or not diff_content.strip(), on the lines of diff_content
IsBlank(lines) == \A k \in 1..Len(lines) : Strip(lines[k]) = <<>>

\* the first branch of the loop body that takes the line
LineBranch(line, file, hunk) ==
    IF IsDiffHeader(line) THEN "diff"
    ELSE IF file # <<>> /\ hunk = <<>> /\ IsExtendedHeader(line) THEN "extended"
    ELSE IF file # <<>> /\ IsBinaryMarker(line) THEN "binary"
    ELSE IF IsOldFileLine(line) /\ file # <<>> THEN "old"
    ELSE IF IsNewFileLine(line) /\ file # <<>> THEN "new"
    ELSE IF HunkHeaderMatch(line) # <<>> /\ file # <<>> THEN "hunk"
    ELSE IF hunk # <<>> /\ IsContentLine(line) THEN "content"
    ELSE "skip"

\* the loop is at line i (counted from 1) and takes the given branch
AtBranch(branch) ==
    /\ diff_pc = "loop"
    /\ i <= Len(diff_content)
    /\ LineBranch(diff_content[i], current_file, current_hunk) = branch

\* lines 212-213
ParseBlank ==
    /\ diff_pc = "call"
    /\ IsBlank(diff_content)
    /\ diff_pc' = "parsed"
    /\ UNCHANGED <<parse_vars, language_hint, include_types, result_patch, generated, stage>>

\* lines 215-229
ParseBegin ==
    /\ diff_pc = "call"
    /\ ~IsBlank(diff_content)
    /\ diff_pc' = "loop"
    /\ i' = 1
    /\ files' = <<>>
    /\ current_file' = <<>>
    /\ current_hunk' = <<>>
    /\ UNCHANGED <<diff_content, language_hint, include_types, result_patch, generated, stage>>

\* lines 235-251
ParseDiffHeader ==
    /\ AtBranch("diff")
    /\ files' = IF current_file # <<>>
                THEN Append(files, WithCurrentHunk(current_file[1], current_hunk))
                ELSE files
    /\ current_hunk' = IF current_file # <<>> THEN <<>> ELSE current_hunk
    /\ current_file' = <<FileDiff(diff_content[i])>>
    /\ i' = i + 1
    /\ UNCHANGED <<diff_pc, diff_content, language_hint, include_types, result_patch, generated, stage>>

\* lines 254-268
ParseExtendedHeader ==
    /\ AtBranch("extended")
    /\ current_file' =
         << [current_file[1] EXCEPT
               !.extended_header = Append(@, diff_content[i]),
               !.is_new_file = @ \/ Contains(diff_content[i], S_new_file_mode),
               !.is_deleted = @ \/ (/\ ~Contains(diff_content[i], S_new_file_mode)
                                    /\ Contains(diff_content[i], S_deleted_file_mode))] >>
    /\ i' = i + 1
    /\ UNCHANGED <<diff_pc, diff_content, files, current_hunk, language_hint,
                   include_types, result_patch, generated, stage>>

\* lines 271-275
ParseBinaryMarker ==
    /\ AtBranch("binary")
    /\ current_file' =
         << [current_file[1] EXCEPT
               !.is_binary = TRUE,
               !.extended_header = Append(@, diff_content[i])] >>
    /\ i' = i + 1
    /\ UNCHANGED <<diff_pc, diff_content, files, current_hunk, language_hint,
                   include_types, result_patch, generated, stage>>

\* lines 278-284
ParseOldFile ==
    /\ AtBranch("old")
    /\ current_file' =
         << [current_file[1] EXCEPT
               !.header_lines = Append(@, diff_content[i]),
               !.old_path = IF OldFilePath(diff_content[i]) # S_dev_null
                            THEN OldFilePath(diff_content[i]) ELSE @] >>
    /\ i' = i + 1
    /\ UNCHANGED <<diff_pc, diff_content, files, current_hunk, language_hint,
                   include_types, result_patch, generated, stage>>

\* lines 287-293
ParseNewFile ==
    /\ AtBranch("new")
    /\ current_file' =
         << [current_file[1] EXCEPT
               !.header_lines = Append(@, diff_content[i]),
               !.new_path = IF NewFilePath(diff_content[i]) # S_dev_null
                            THEN NewFilePath(diff_content[i]) ELSE @] >>
    /\ i' = i + 1
    /\ UNCHANGED <<diff_pc, diff_content, files, current_hunk, language_hint,
                   include_types, result_patch, generated, stage>>

\* lines 296-313
ParseHunkHeader ==
    /\ AtBranch("hunk")
    /\ current_file' = <<WithCurrentHunk(current_file[1], current_hunk)>>
    /\ current_hunk' = <<DiffHunk(diff_content[i], HunkHeaderMatch(diff_content[i])[1])>>
    /\ i' = i + 1
    /\ UNCHANGED <<diff_pc, diff_content, files, language_hint, include_types, result_patch, generated, stage>>

\* lines 316-321 and 325
ParseContent ==
    /\ AtBranch("content")
    /\ current_hunk' = <<[current_hunk[1] EXCEPT !.lines = Append(@, diff_content[i])]>>
    /\ i' = i + 1
    /\ UNCHANGED <<diff_pc, diff_content, files, current_file, language_hint,
                   include_types, result_patch, generated, stage>>

\* lines 322-325: a line no branch takes is passed over
ParseSkip ==
    /\ AtBranch("skip")
    /\ i' = i + 1
    /\ UNCHANGED <<diff_pc, diff_content, files, current_file, current_hunk,
                   language_hint, include_types, result_patch, generated, stage>>

\* lines 328-333
ParseEnd ==
    /\ diff_pc = "loop"
    /\ i > Len(diff_content)
    /\ files' = IF current_file # <<>>
                THEN Append(files, WithCurrentHunk(current_file[1], current_hunk))
                ELSE files
    /\ diff_pc' = "parsed"
    /\ UNCHANGED <<diff_content, i, current_file, current_hunk, language_hint,
                   include_types, result_patch, generated, stage>>

ParseNext ==
    \/ ParseBlank \/ ParseBegin \/ ParseDiffHeader \/ ParseExtendedHeader
    \/ ParseBinaryMarker \/ ParseOldFile \/ ParseNewFile \/ ParseHunkHeader
    \/ ParseContent \/ ParseSkip \/ ParseEnd

-----------------------------------------------------------------------------
(* File paths: detect_language_from_filepath and is_test_filepath, diff_parser.py:471-549 *)

\* FileDiff.filepath, diff_parser.py:120-125
FilePath(file) ==
    IF file.new_path # <<>> /\ file.new_path # S_dev_null THEN file.new_path
    ELSE file.old_path

\* ext_map, lines 481-497, in the order of the dict
ExtMap ==
    << <<<<".", "r", "s">>, "rust">>, <<<<".", "p", "y">>, "python">>, <<<<".", "g", "o">>, "go">>,
       <<<<".", "j", "a", "v", "a">>, "java">>, <<<<".", "k", "t">>, "kotlin">>, <<<<".", "k", "t", "s">>, "kotlin">>,
       <<<<".", "j", "s">>, "javascript">>, <<<<".", "j", "s", "x">>, "javascript">>,
       <<<<".", "t", "s">>, "typescript">>, <<<<".", "t", "s", "x">>, "typescript">>,
       <<<<".", "r", "b">>, "ruby">>, <<<<".", "e", "x">>, "elixir">>, <<<<".", "e", "x", "s">>, "elixir">>,
       <<<<".", "d">>, "d">>, <<<<".", "s", "c", "a", "l", "a">>, "scala">> >>

\* the entries of ext_map whose extension ends the lowercased path
ExtMatches(filepath_lower) ==
    {k \in 1..Len(ExtMap) : EndsWith(filepath_lower, ExtMap[k][1])}

\* detect_language_from_filepath: an optional language name, that of the
\* first entry that matches
detect_language_from_filepath(filepath) ==
    IF ExtMatches(ToLower(filepath)) = {} THEN <<>>
    ELSE <<ExtMap[Min(ExtMatches(ToLower(filepath)))][2]>>

\* test_path_patterns, lines 517-525: (^|/)<dir>(/|$)
TestPathDirs ==
    { <<"s", "r", "c", "/", "t", "e", "s", "t">>, <<"t", "e", "s", "t">>, <<"t", "e", "s", "t", "s">>, <<"s", "p", "e", "c">>, <<"_", "_", "t", "e", "s", "t", "s", "_", "_">>, <<"t", "e", "s", "t", "d", "a", "t", "a">>,
      <<"t", "e", "s", "t", "_", "d", "a", "t", "a">>, <<"f", "i", "x", "t", "u", "r", "e">>, <<"f", "i", "x", "t", "u", "r", "e", "s">> }

HasPathPart(path, dir) ==
    \E k \in 1..Len(path) :
        /\ StartsWithAt(path, k, dir)
        /\ k = 1 \/ path[k - 1] = "/"
        /\ k + Len(dir) > Len(path) \/ path[k + Len(dir)] = "/"

\* no "/" in path[k:]
NoSlashFrom(path, k) == \A j \in k..Len(path) : path[j] # "/"

\* lines 528-531: <mark>[^/]+$
NameMarks == { <<"_", "t", "e", "s", "t", ".">>, <<"_", "s", "p", "e", "c", ".">>, <<".", "t", "e", "s", "t", ".">>, <<".", "s", "p", "e", "c", ".">> }

HasNameMark(path, mark) ==
    \E k \in 1..Len(path) :
        /\ StartsWithAt(path, k, mark)
        /\ k + Len(mark) <= Len(path)
        /\ NoSlashFrom(path, k + Len(mark))

\* line 532: test_[^/]+\.[^/]+$
HasTestPrefixName(path) ==
    \E k \in 1..Len(path) :
        /\ StartsWithAt(path, k, S_test_)
        /\ NoSlashFrom(path, k + 5)
        /\ \E j \in (k + 6)..(Len(path) - 1) : path[j] = "."

\* lines 533-538: [^/]*<suffix>$
NameSuffixes ==
    { <<"t", "e", "s", "t", ".", "j", "a", "v", "a">>, <<"t", "e", "s", "t", "s", ".", "j", "a", "v", "a">>, <<"i", "t", ".", "j", "a", "v", "a">>, <<"t", "e", "s", "t", ".", "k", "t">>, <<"t", "e", "s", "t", ".", "s", "c", "a", "l", "a">>,
      <<"s", "p", "e", "c", ".", "s", "c", "a", "l", "a">> }

IsTestPathLower(path) ==
    \/ \E dir \in TestPathDirs : HasPathPart(path, dir)
    \/ \E mark \in NameMarks : HasNameMark(path, mark)
    \/ HasTestPrefixName(path)
    \/ \E suffix \in NameSuffixes : EndsWith(path, suffix)

is_test_filepath(filepath) == IsTestPathLower(ToLower(filepath))

-----------------------------------------------------------------------------
(* Hunk classification: classify_hunk, classify_file_hunks, classify_all_hunks, diff_parser.py:552-785 *)

\* re's \w
IsWordChar(c) ==
    \/ \E k \in 1..Len(UpperChars) : c = UpperChars[k] \/ c = LowerChars[k]
    \/ IsDigit(c)
    \/ c = "_"

\* \b before position k, where a word character stands at k
WordStartsAt(text, k) == k = 1 \/ ~IsWordChar(text[k - 1])

\* \b before position k, where a word character stands at k - 1
WordEndsAt(text, k) == k > Len(text) \/ ~IsWordChar(text[k])

RECURSIVE JoinLines(_)
\* '\n'.join(lines)
JoinLines(lines) ==
    IF lines = <<>> THEN <<>>
    ELSE IF Len(lines) = 1 THEN lines[1]
    ELSE lines[1] \o <<"\n">> \o JoinLines(Tail(lines))

RECURSIVE LinesWithPrefix(_, _)
\* [line[1:] for line in lines if line.startswith(prefix)], diff_parser.py:62-72
LinesWithPrefix(lines, prefix) ==
    IF lines = <<>> THEN <<>>
    ELSE IF lines[1] # <<>> /\ lines[1][1] = prefix
         THEN <<Tail(lines[1])>> \o LinesWithPrefix(Tail(lines), prefix)
         ELSE LinesWithPrefix(Tail(lines), prefix)

AddedContent(hunk) == JoinLines(LinesWithPrefix(hunk.lines, "+"))

RemovedContent(hunk) == JoinLines(LinesWithPrefix(hunk.lines, "-"))

ContextContent(hunk) == JoinLines(LinesWithPrefix(hunk.lines, " "))

RECURSIVE Gcd(_, _)
Gcd(a, b) == IF b = 0 THEN a ELSE Gcd(b, a % b)

\* the fraction n/d in lowest terms
Fraction(n, d) == <<n \div Gcd(n, d), d \div Gcd(n, d)>>

\* max(a, b) of two fractions
MaxFraction(a, b) == IF a[1] * b[2] >= b[1] * a[2] THEN a ELSE b

\* A pattern of the tables is a literal text, with \b before it or not, and
\* what must follow it: nothing, \b, \s* and an opening character, or (for
\* when\s*\(.*\)\.then) \s*\( and later on the line ).then; its weight is in
\* hundredths.

\* \b<word>\s*<open>
WordOpen(word, open, weight) ==
    [bounded |-> TRUE, word |-> word, tail |-> "open", open |-> open, weight |-> weight]

\* <word>\s*<open>
TextOpen(word, open, weight) ==
    [bounded |-> FALSE, word |-> word, tail |-> "open", open |-> open, weight |-> weight]

\* <word>\b
TextBoundary(word, weight) ==
    [bounded |-> FALSE, word |-> word, tail |-> "boundary", open |-> "", weight |-> weight]

\* \b<word>
WordText(word, weight) ==
    [bounded |-> TRUE, word |-> word, tail |-> "none", open |-> "", weight |-> weight]

\* <word>\s*\(.*\)\.then
TextThen(word, weight) ==
    [bounded |-> FALSE, word |-> word, tail |-> "then", open |-> "(", weight |-> weight]

\* JAVA_TEST_PATTERNS, lines 383-397
JAVA_TEST_PATTERNS ==
    << TextBoundary(<<"@", "T", "e", "s", "t">>, 95),
       TextBoundary(<<"@", "B", "e", "f", "o", "r", "e">>, 90),
       TextBoundary(<<"@", "A", "f", "t", "e", "r">>, 90),
       TextBoundary(<<"@", "B", "e", "f", "o", "r", "e", "E", "a", "c", "h">>, 90),
       TextBoundary(<<"@", "A", "f", "t", "e", "r", "E", "a", "c", "h">>, 90),
       TextBoundary(<<"@", "B", "e", "f", "o", "r", "e", "A", "l", "l">>, 90),
       TextBoundary(<<"@", "A", "f", "t", "e", "r", "A", "l", "l">>, 90),
       TextBoundary(<<"@", "P", "a", "r", "a", "m", "e", "t", "e", "r", "i", "z", "e", "d", "T", "e", "s", "t">>, 95),
       TextBoundary(<<"@", "D", "i", "s", "p", "l", "a", "y", "N", "a", "m", "e">>, 85),
       TextOpen(<<"a", "s", "s", "e", "r", "t", "E", "q", "u", "a", "l", "s">>, "(", 70),
       TextOpen(<<"a", "s", "s", "e", "r", "t", "T", "h", "a", "t">>, "(", 70),
       TextOpen(<<"v", "e", "r", "i", "f", "y">>, "(", 60),
       TextThen(<<"w", "h", "e", "n">>, 60) >>

\* JAVASCRIPT_TEST_PATTERNS, lines 409-422
JAVASCRIPT_TEST_PATTERNS ==
    << WordOpen(<<"d", "e", "s", "c", "r", "i", "b", "e">>, "(", 90),
       WordOpen(<<"i", "t">>, "(", 85),
       WordOpen(<<"t", "e", "s", "t">>, "(", 85),
       WordOpen(<<"e", "x", "p", "e", "c", "t">>, "(", 80),
       WordOpen(<<"b", "e", "f", "o", "r", "e", "E", "a", "c", "h">>, "(", 85),
       WordOpen(<<"a", "f", "t", "e", "r", "E", "a", "c", "h">>, "(", 85),
       WordOpen(<<"b", "e", "f", "o", "r", "e", "A", "l", "l">>, "(", 85),
       WordOpen(<<"a", "f", "t", "e", "r", "A", "l", "l">>, "(", 85),
       WordText(<<"j", "e", "s", "t", ".">>, 90),
       WordText(<<"s", "i", "n", "o", "n", ".">>, 80),
       TextOpen(<<".", "t", "o", "E", "q", "u", "a", "l">>, "(", 80),
       TextOpen(<<".", "t", "o", "B", "e">>, "(", 80) >>

\* D_TEST_PATTERNS, lines 448-451
D_TEST_PATTERNS ==
    << WordOpen(<<"u", "n", "i", "t", "t", "e", "s", "t">>, "{", 95),
       WordOpen(<<"a", "s", "s", "e", "r", "t">>, "(", 60) >>

\* LANGUAGE_TEST_PATTERNS.get(language, []), lines 454-465 and 575, for the
\* languages that reach classify_hunk in this model: java, javascript,
\* typescript, d, and the names without an entry.  The keys are lowercase and
\* the lookup is by the exact name.
LanguageTestPatterns(lang) ==
    IF lang = "java" THEN JAVA_TEST_PATTERNS
    ELSE IF lang = "javascript" \/ lang = "typescript" THEN JAVASCRIPT_TEST_PATTERNS
    ELSE IF lang = "d" THEN D_TEST_PATTERNS
    ELSE <<>>

S_close_then == <<")", ".", "t", "h", "e", "n">>

\* \(.*\)\.then at position p: ( at p, and ).then later on the same line
ThenAt(text, p) ==
    /\ StartsWithAt(text, p, <<"(">>)
    /\ \E j \in (p + 1)..Len(text) :
          /\ StartsWithAt(text, j, S_close_then)
          /\ \A q \in (p + 1)..(j - 1) : text[q] # "\n"

\* what follows the literal text of the pattern, at position p
PatternTailAt(pattern, text, p) ==
    CASE pattern.tail = "none" -> TRUE
      [] pattern.tail = "boundary" -> WordEndsAt(text, p)
      [] pattern.tail = "open" -> StartsWithAt(text, p + SpaceRunAt(text, p), <<pattern.open>>)
      [] pattern.tail = "then" -> ThenAt(text, p + SpaceRunAt(text, p))

\* pattern.search(text)
PatternSearch(pattern, text) ==
    \E k \in 1..Len(text) :
        /\ StartsWithAt(text, k, pattern.word)
        /\ pattern.bounded => WordStartsAt(text, k)
        /\ PatternTailAt(pattern, text, k + Len(pattern.word))

\* faulty variant: a match in the removed lines counts like one in the context
PatternScore_RemovedCounts(pattern, hunk) ==
    IF PatternSearch(pattern, AddedContent(hunk)) THEN 2 * pattern.weight
    ELSE IF \/ PatternSearch(pattern, ContextContent(hunk))
            \/ PatternSearch(pattern, hunk.context)
            \/ PatternSearch(pattern, RemovedContent(hunk))
         THEN pattern.weight
         ELSE 0

\* the contribution of one pattern in two-hundredths, lines 596-603
PatternScore(pattern, hunk) ==
    IF PatternSearch(pattern, AddedContent(hunk)) THEN 2 * pattern.weight
    ELSE IF \/ PatternSearch(pattern, ContextContent(hunk))
            \/ PatternSearch(pattern, hunk.context)
         THEN pattern.weight
         ELSE 0

RECURSIVE TestScore(_, _)
\* test_score in two-hundredths
TestScore(patterns, hunk) ==
    IF patterns = <<>> THEN 0
    ELSE PatternScore(patterns[1], hunk) + TestScore(Tail(patterns), hunk)

RECURSIVE MaxPossibleScore(_)
\* max_possible_score in two-hundredths
MaxPossibleScore(patterns) ==
    IF patterns = <<>> THEN 0
    ELSE 2 * patterns[1].weight + MaxPossibleScore(Tail(patterns))

Classified(hunk, hunk_type, confidence) ==
    [hunk EXCEPT !.hunk_type = hunk_type, !.confidence = confidence]

\* lines 611-620 for normalized_score = score / max_score
ByThresholds(hunk, score, max_score) ==
    IF 10 * score >= 3 * max_score
    THEN Classified(hunk, "test",
                    IF 2 * score >= max_score THEN <<1, 1>> ELSE Fraction(2 * score, max_score))
    ELSE IF 10 * score > max_score
    THEN Classified(hunk, "mixed", Fraction(score, max_score))
    ELSE Classified(hunk, "code", Fraction(max_score - score, max_score))

\* the keys of LANGUAGE_TEST_PATTERNS, lines 454-465
RegistryLanguages ==
    {"rust", "python", "go", "java", "kotlin", "javascript", "typescript", "ruby", "elixir", "d"}

\* faulty variant: a language without a pattern list is scored like one with
\* no match
classify_hunk_CodeWithoutPatterns(hunk, lang) ==
    IF LanguageTestPatterns(lang) = <<>>
    THEN Classified(hunk, "code", <<1, 1>>)
    ELSE ByThresholds(hunk, TestScore(LanguageTestPatterns(lang), hunk),
                      MaxPossibleScore(LanguageTestPatterns(lang)))

\* classify_hunk, lines 575-629
classify_hunk(hunk, lang) ==
    IF LanguageTestPatterns(lang) = <<>>
    THEN Classified(hunk, "unknown", ConfidenceZero)
    ELSE ByThresholds(hunk, TestScore(LanguageTestPatterns(lang), hunk),
                      MaxPossibleScore(LanguageTestPatterns(lang)))

S_mod == <<"m", "o", "d">>

S_test == <<"t", "e", "s", "t">>

\* \bmod\s+tests?\b with the word test at position p
TestWordEnds(text, p) ==
    /\ StartsWithAt(text, p, S_test)
    /\ \/ WordEndsAt(text, p + 4)
       \/ StartsWithAt(text, p + 4, <<"s">>) /\ WordEndsAt(text, p + 5)

\* \bmod\s+tests?\b, re.IGNORECASE
ModTestsContext(text) ==
    \E k \in 1..Len(text) :
        /\ StartsWithAt(text, k, S_mod)
        /\ WordStartsAt(text, k)
        /\ SpaceRunAt(text, k + 3) >= 1
        /\ TestWordEnds(text, k + 3 + SpaceRunAt(text, k + 3))

S_fn == <<"f", "n">>

\* \bfn\s+test_\w+, re.IGNORECASE
FnTestContext(text) ==
    \E k \in 1..Len(text) :
        /\ StartsWithAt(text, k, S_fn)
        /\ WordStartsAt(text, k)
        /\ SpaceRunAt(text, k + 2) >= 1
        /\ StartsWithAt(text, k + 2 + SpaceRunAt(text, k + 2), S_test_)
        /\ ~WordEndsAt(text, k + 2 + SpaceRunAt(text, k + 2) + 5)

\* test_context_patterns, lines 706-709
ContextIsTest(context) ==
    ModTestsContext(ToLower(context)) \/ FnTestContext(ToLower(context))

\* \s*\{ at position p
BlockOpensAt(text, p) == StartsWithAt(text, p + SpaceRunAt(text, p), <<"{">>)

\* mod\s+tests?\s*\{
ModTestsOpening(text) ==
    \E k \in 1..Len(text) :
        /\ StartsWithAt(text, k, S_mod)
        /\ SpaceRunAt(text, k + 3) >= 1
        /\ StartsWithAt(text, k + 3 + SpaceRunAt(text, k + 3), S_test)
        /\ \/ /\ StartsWithAt(text, k + 7 + SpaceRunAt(text, k + 3), <<"s">>)
              /\ BlockOpensAt(text, k + 8 + SpaceRunAt(text, k + 3))
           \/ BlockOpensAt(text, k + 7 + SpaceRunAt(text, k + 3))

\* the attributes of test_line_patterns, lines 712-718
TestAttributes ==
    { <<"#", "[", "t", "e", "s", "t", "]">>, <<"#", "[", "c", "f", "g", "(", "t", "e", "s", "t", ")", "]">>, <<"#", "[", "t", "o", "k", "i", "o", ":", ":", "t", "e", "s", "t", "]">>, <<"#", "[", "a", "s", "y", "n", "c", "_", "s", "t", "d", ":", ":", "t", "e", "s", "t", "]">> }

HasTestMarkers(text) ==
    \/ \E attribute \in TestAttributes : Contains(text, attribute)
    \/ ModTestsOpening(text)

\* faulty variant: a marker in a changed line is looked at before the context
ClassifyRustHunk_MarkersFirst(hunk) ==
    IF HasTestMarkers(AddedContent(hunk)) THEN Classified(hunk, "test", <<9, 10>>)
    ELSE IF HasTestMarkers(RemovedContent(hunk)) THEN Classified(hunk, "mixed", <<7, 10>>)
    ELSE IF ContextIsTest(hunk.context) THEN Classified(hunk, "test", <<19, 20>>)
    ELSE Classified(hunk, "code", <<9, 10>>)

\* one hunk of _classify_rust_hunks_with_context, lines 720-761
ClassifyRustHunk(hunk) ==
    IF ContextIsTest(hunk.context) THEN Classified(hunk, "test", <<19, 20>>)
    ELSE IF HasTestMarkers(AddedContent(hunk)) THEN Classified(hunk, "test", <<9, 10>>)
    ELSE IF HasTestMarkers(AddedContent(hunk)) \/ HasTestMarkers(RemovedContent(hunk))
         THEN Classified(hunk, "mixed", <<7, 10>>)
    ELSE Classified(hunk, "code", <<9, 10>>)

\* the floor of the path-level default, lines 664, 680 and 687
TestPathConfidence == <<3, 5>>

\* faulty variant: only UNKNOWN becomes TEST in a test path
DefaultToTest_UnknownOnly(hunk, file_is_test_path) ==
    IF file_is_test_path /\ hunk.hunk_type = "unknown"
    THEN Classified(hunk, "test", MaxFraction(hunk.confidence, TestPathConfidence))
    ELSE hunk

\* lines 677-680 and 685-687: CODE and UNKNOWN become TEST in a test path
DefaultToTest(hunk, file_is_test_path) ==
    IF file_is_test_path /\ hunk.hunk_type \in {"code", "unknown"}
    THEN Classified(hunk, "test", MaxFraction(hunk.confidence, TestPathConfidence))
    ELSE hunk

\* INLINE_TEST_LANGUAGES, line 468
InlineTestLanguages == {"rust", "python", "go", "elixir", "d"}

\* faulty variant: every inline-test language goes through the scan of
\* _classify_rust_hunks_with_context
ClassifyFileHunk_InlineScan(hunk, lang, file_is_test_path) ==
    IF lang = <<>>
    THEN IF file_is_test_path THEN Classified(hunk, "test", TestPathConfidence)
         ELSE Classified(hunk, "unknown", ConfidenceZero)
    ELSE IF lang[1] \in InlineTestLanguages
    THEN DefaultToTest(ClassifyRustHunk(hunk), file_is_test_path)
    ELSE DefaultToTest(classify_hunk(hunk, lang[1]), file_is_test_path)

\* what classify_file_hunks does to one hunk, lines 659-687
ClassifyFileHunk(hunk, lang, file_is_test_path) ==
    IF lang = <<>>
    THEN IF file_is_test_path THEN Classified(hunk, "test", TestPathConfidence)
         ELSE Classified(hunk, "unknown", ConfidenceZero)
    ELSE IF lang[1] = "rust" THEN DefaultToTest(ClassifyRustHunk(hunk), file_is_test_path)
    ELSE DefaultToTest(classify_hunk(hunk, lang[1]), file_is_test_path)

\* lines 652-653
LanguageOrDetected(lang, file) ==
    IF lang = <<>> THEN detect_language_from_filepath(FilePath(file)) ELSE lang

ClassifyHunksOf(file, lang, file_is_test_path) ==
    [file EXCEPT !.hunks = [k \in 1..Len(file.hunks) |->
                              ClassifyFileHunk(file.hunks[k], lang, file_is_test_path)]]

\* classify_file_hunks(file_diff, language), lines 632-689
classify_file_hunks(file, lang) ==
    ClassifyHunksOf(file, LanguageOrDetected(lang, file), is_test_filepath(FilePath(file)))

\* classify_all_hunks(file_diffs, language), lines 764-785
classify_all_hunks(file_diffs, lang) ==
    [k \in 1..Len(file_diffs) |->
        classify_file_hunks(file_diffs[k], LanguageOrDetected(lang, file_diffs[k]))]

-----------------------------------------------------------------------------
(* Patch reconstruction: reconstruct_patch, diff_parser.py:792-862 *)

\* A patch is modelled by the sequence of its lines: '\n'.join() of lines
\* that hold no newline, the empty patch "" being <<>>.  Every part joined
\* starts with a diff --git line, so no part is the empty string.

\* faulty variant: the extended header lines are written after the path markers
ordered_header_lines_MarkersFirst(file) == file.header_lines \o file.extended_header

\* FileDiff.ordered_header_lines, lines 143-157
ordered_header_lines(file) ==
    IF file.header_lines = <<>> THEN file.extended_header
    ELSE <<file.header_lines[1]>> \o file.extended_header \o Tail(file.header_lines)

RECURSIVE HunksOfTypes(_, _)
\* [h for h in hunks if h.hunk_type in include], line 815
HunksOfTypes(hunks, include) ==
    IF hunks = <<>> THEN <<>>
    ELSE IF hunks[1].hunk_type \in include
         THEN <<hunks[1]>> \o HunksOfTypes(Tail(hunks), include)
         ELSE HunksOfTypes(Tail(hunks), include)

RECURSIVE HunkLines(_)
\* the header and the lines of each hunk, lines 858-860
HunkLines(hunks) ==
    IF hunks = <<>> THEN <<>>
    ELSE <<hunks[1].header>> \o hunks[1].lines \o HunkLines(Tail(hunks))

\* _reconstruct_file_patch, lines 839-862
reconstruct_file_patch(file, hunks) ==
    IF hunks = <<>> THEN <<>>
    ELSE ordered_header_lines(file) \o HunkLines(hunks)

\* faulty variant: a binary file is written whatever include_types holds
FilePatchLines_BinaryAlways(file, matching_hunks, include) ==
    IF file.is_binary THEN ordered_header_lines(file)
    ELSE reconstruct_file_patch(file, matching_hunks)

\* faulty variant: a file without a matching hunk is written with its header alone
FilePatchLines_HeaderAlways(file, matching_hunks, include) ==
    IF file.is_binary
    THEN IF "code" \in include \/ "unknown" \in include
         THEN ordered_header_lines(file) ELSE <<>>
    ELSE ordered_header_lines(file) \o HunkLines(matching_hunks)

\* what one file adds to patch_parts, lines 815-834
FilePatchLines(file, matching_hunks, include) ==
    IF matching_hunks = <<>> /\ ~file.is_binary THEN <<>>
    ELSE IF file.is_binary
    THEN IF "code" \in include \/ "unknown" \in include
         THEN ordered_header_lines(file) ELSE <<>>
    ELSE reconstruct_file_patch(file, matching_hunks)

RECURSIVE reconstruct_patch(_, _)
\* reconstruct_patch(file_diffs, include_types), lines 811-836
reconstruct_patch(file_diffs, include) ==
    IF file_diffs = <<>> THEN <<>>
    ELSE FilePatchLines(file_diffs[1], HunksOfTypes(file_diffs[1].hunks, include), include)
         \o reconstruct_patch(Tail(file_diffs), include)

-----------------------------------------------------------------------------
(* One diff through parse_diff, classify_all_hunks and reconstruct_patch *)

\* the number of lines of a diff
MaxLines == 4

H_lib == <<"d", "i", "f", "f", " ", "-", "-", "g", "i", "t", " ", "a", "/", "s", "r", "c", "/", "l", "i", "b", ".", "r", "s", " ", "b", "/", "s", "r", "c", "/", "l", "i", "b", ".", "r", "s">>

H_img == <<"d", "i", "f", "f", " ", "-", "-", "g", "i", "t", " ", "a", "/", "t", "e", "s", "t", "s", "/", "i", "m", "g", ".", "p", "n", "g", " ", "b", "/", "t", "e", "s", "t", "s", "/", "i", "m", "g", ".", "p", "n", "g">>

X_mode == <<"o", "l", "d", " ", "m", "o", "d", "e", " ", "1", "0", "0", "6", "4", "4">>

B_bin == <<"B", "i", "n", "a", "r", "y", " ", "f", "i", "l", "e", "s", " ", "a", "/", "t", "e", "s", "t", "s", "/", "i", "m", "g", ".", "p", "n", "g", " ", "a", "n", "d", " ", "b", "/", "t", "e", "s", "t", "s", "/", "i", "m", "g", ".", "p", "n", "g", " ", "d", "i", "f", "f", "e", "r">>

M_old == <<"-", "-", "-", " ", "a", "/", "s", "r", "c", "/", "l", "i", "b", ".", "r", "s">>

K_plain == <<"@", "@", " ", "-", "1", " ", "+", "1", " ", "@", "@">>

K_tests == <<"@", "@", " ", "-", "1", ",", "2", " ", "+", "3", ",", "4", " ", "@", "@", " ", "m", "o", "d", " ", "t", "e", "s", "t", "s", " ", "{">>

\* the removed line "#[test]"
R_test == <<"-", "#", "[", "t", "e", "s", "t", "]">>

\* the removed line "-- b"
R_dash == <<"-", "-", "-", " ", "b">>

DiffLines == {H_lib, H_img, X_mode, B_bin, M_old, K_plain, K_tests, R_test, R_dash}

\* the diffs of k lines: any lines when k <= 2, else a diff --git line first
DiffsOfLen(k) ==
    {d \in [1..k -> DiffLines] : k <= 2 \/ IsDiffHeader(d[1])}

\* "" and " \n"
BlankDiffs == { << <<>> >>, << <<" ">>, <<>> >> }

\* Diffs of one file with one hunk, for the classification: a diff --git
\* line, a hunk header, then content lines.

H_app == <<"d", "i", "f", "f", " ", "-", "-", "g", "i", "t", " ", "a", "/", "s", "r", "c", "/", "A", "p", "p", ".", "j", "a", "v", "a", " ", "b", "/", "s", "r", "c", "/", "A", "p", "p", ".", "j", "a", "v", "a">>

H_apptest == <<"d", "i", "f", "f", " ", "-", "-", "g", "i", "t", " ", "a", "/", "s", "r", "c", "/", "t", "e", "s", "t", "/", "A", "p", "p", "T", "e", "s", "t", ".", "j", "a", "v", "a", " ", "b", "/", "s", "r", "c", "/", "t", "e", "s", "t", "/", "A", "p", "p", "T", "e", "s", "t", ".", "j", "a", "v", "a">>

H_ts == <<"d", "i", "f", "f", " ", "-", "-", "g", "i", "t", " ", "a", "/", "s", "r", "c", "/", "a", "p", "p", ".", "c", "o", "r", "e", ".", "t", "s", " ", "b", "/", "s", "r", "c", "/", "a", "p", "p", ".", "c", "o", "r", "e", ".", "t", "s">>

H_notes == <<"d", "i", "f", "f", " ", "-", "-", "g", "i", "t", " ", "a", "/", "d", "o", "c", "s", "/", "n", "o", "t", "e", "s", ".", "t", "x", "t", " ", "b", "/", "d", "o", "c", "s", "/", "n", "o", "t", "e", "s", ".", "t", "x", "t">>

K_fn == <<"@", "@", " ", "-", "1", " ", "+", "1", " ", "@", "@", " ", "f", "n", " ", "t", "e", "s", "t", "_", "s", "o", "m", "e", "t", "h", "i", "n", "g">>

\* the context line "@Test"
C_Test == <<" ", "@", "T", "e", "s", "t">>

\* the added line "verify(x);"
A_verify == <<"+", "v", "e", "r", "i", "f", "y", "(", "x", ")", ";">>

\* the added line "expect(a).toBe(1);"
A_expect == <<"+", "e", "x", "p", "e", "c", "t", "(", "a", ")", ".", "t", "o", "B", "e", "(", "1", ")", ";">>

\* the added line "#[test]"
A_test == <<"+", "#", "[", "t", "e", "s", "t", "]">>

\* the context line "#[test]"
C_test == <<" ", "#", "[", "t", "e", "s", "t", "]">>

\* the removed line "verify(x);"
R_verify == <<"-", "v", "e", "r", "i", "f", "y", "(", "x", ")", ";">>

\* a hunk header with the context "@Test void run()"
K_Test == <<"@", "@", " ", "-", "1", " ", "+", "1", " ", "@", "@", " ", "@", "T", "e", "s", "t", " ", "v", "o", "i", "d", " ", "r", "u", "n", "(", ")">>

HunkDiffHeaders == {H_lib, H_app, H_apptest, H_ts, H_notes}

HunkDiffHunkHeaders == {K_plain, K_fn, K_Test}

HunkDiffContent == {C_Test, A_verify, A_expect, A_test, C_test, R_test, R_verify}

IsHunkDiff(d) ==
    /\ Len(d) >= 2
    /\ d[1] \in HunkDiffHeaders
    /\ d[2] \in HunkDiffHunkHeaders
    /\ \A k \in 3..Len(d) : d[k] \in HunkDiffContent

HunkDiffsOfLen(k) ==
    {d \in [1..k -> HunkDiffHeaders \cup HunkDiffHunkHeaders \cup HunkDiffContent] : IsHunkDiff(d)}

DiffInputs ==
    BlankDiffs \cup UNION {DiffsOfLen(k) : k \in 1..MaxLines}
               \cup UNION {HunkDiffsOfLen(k) : k \in 2..MaxLines}

\* the language argument: None, a language with the specialized scan, one
\* with a pattern list, one without
LanguageHints == { <<>>, <<"rust">>, <<"d">>, <<"scala">> }

\* for the diffs of one hunk also java, and typescript in two spellings
HunkDiffLanguageHints ==
    LanguageHints \cup { <<"java">>, <<"typescript">>, <<"TypeScript">> }

LanguageHintsFor(d) == IF IsHunkDiff(d) THEN HunkDiffLanguageHints ELSE LanguageHints

DiffInit ==
    /\ diff_pc = "call"
    /\ diff_content \in DiffInputs
    /\ i = 0
    /\ files = <<>>
    /\ current_file = <<>>
    /\ current_hunk = <<>>
    /\ language_hint = <<>>
    /\ include_types = {}
    /\ result_patch = <<>>
    /\ generated = NoPatches
    /\ stage = NoStage
    /\ NmIdle
    /\ CatIdle
    /\ IdxIdle
    /\ InfIdle
    /\ DdIdle

\* classify_all_hunks(file_diffs, language) on the parsed files
Classify ==
    /\ diff_pc = "parsed"
    /\ \E lang \in LanguageHintsFor(diff_content) :
          /\ language_hint' = lang
          /\ files' = classify_all_hunks(files, lang)
    /\ diff_pc' = "classified"
    /\ UNCHANGED <<diff_content, i, current_file, current_hunk, include_types, result_patch, generated, stage>>

\* reconstruct_patch(parse_diff(diff_content), {TEST, CODE, MIXED, UNKNOWN})
ReconstructParsed ==
    /\ diff_pc = "parsed"
    /\ include_types' = HunkTypes
    /\ result_patch' = reconstruct_patch(files, HunkTypes)
    /\ diff_pc' = "reconstructed_parsed"
    /\ UNCHANGED <<parse_vars, language_hint, generated, stage>>

\* reconstruct_patch(file_diffs, include_types) on the classified files
Reconstruct ==
    /\ diff_pc = "classified"
    /\ \E types \in SUBSET HunkTypes :
          /\ include_types' = types
          /\ result_patch' = reconstruct_patch(files, types)
    /\ diff_pc' = "reconstructed"
    /\ UNCHANGED <<parse_vars, language_hint, generated, stage>>

\* lines 659-676 for one hunk: the labels of the content, before the
\* defaulting of a test path
ContentLabels(hunk, lang, file_is_test_path) ==
    IF lang = <<>>
    THEN IF file_is_test_path THEN Classified(hunk, "test", TestPathConfidence)
         ELSE Classified(hunk, "unknown", ConfidenceZero)
    ELSE IF lang[1] = "rust" THEN ClassifyRustHunk(hunk)
    ELSE classify_hunk(hunk, lang[1])

\* faulty variant: the scan of a rust file remembers the test context of the
\* hunk before
LabelledHunk_Sticky(file_diffs, f, h, lang) ==
    IF /\ LanguageOrDetected(lang, file_diffs[f]) = <<"rust">>
       /\ h > 1
       /\ file_diffs[f].hunks[h - 1].hunk_type = "test"
    THEN Classified(file_diffs[f].hunks[h], "test", <<19, 20>>)
    ELSE ContentLabels(file_diffs[f].hunks[h], LanguageOrDetected(lang, file_diffs[f]),
                       is_test_filepath(FilePath(file_diffs[f])))

\* the body of the loop over the hunks (lines 661-667, 675-676, 720-761) for
\* hunk h of file f
LabelledHunk(file_diffs, f, h, lang) ==
    ContentLabels(file_diffs[f].hunks[h], LanguageOrDetected(lang, file_diffs[f]),
                  is_test_filepath(FilePath(file_diffs[f])))

\* lines 677-680 and 683-687 for hunk h of file f; a file without a language
\* has returned at line 668
DefaultedHunk(file_diffs, f, h, lang) ==
    IF LanguageOrDetected(lang, file_diffs[f]) = <<>> THEN file_diffs[f].hunks[h]
    ELSE DefaultToTest(file_diffs[f].hunks[h], is_test_filepath(FilePath(file_diffs[f])))

\* the hunks of the parsed files, as (file place, hunk place)
AllHunks(file_diffs) ==
    UNION {{<<f, h>> : h \in 1..Len(file_diffs[f].hunks)} : f \in 1..Len(file_diffs)}

\* classify_all_hunks(file_diffs, language) with its loops run by concurrent
\* workers, one hunk at a time in any order
BeginConcurrent ==
    /\ diff_pc = "parsed"
    /\ \E lang \in LanguageHintsFor(diff_content) : language_hint' = lang
    /\ diff_pc' = "classifying"
    /\ UNCHANGED <<parse_vars, include_types, result_patch, generated, stage>>

\* a worker runs the body of the loop for a hunk
LabelHunk ==
    /\ diff_pc = "classifying"
    /\ \E fh \in AllHunks(files) \ stage.scored :
          /\ files' = [files EXCEPT ![fh[1]].hunks[fh[2]] =
                          LabelledHunk(files, fh[1], fh[2], language_hint)]
          /\ stage' = [stage EXCEPT !.scored = @ \cup {fh}]
    /\ UNCHANGED <<diff_pc, diff_content, i, current_file, current_hunk, language_hint,
                   include_types, result_patch, generated>>

\* a worker applies the defaulting of a test path to a hunk that has its
\* content labels
DefaultHunk ==
    /\ diff_pc = "classifying"
    /\ \E fh \in stage.scored \ stage.done :
          /\ files' = [files EXCEPT ![fh[1]].hunks[fh[2]] =
                          DefaultedHunk(files, fh[1], fh[2], language_hint)]
          /\ stage' = [stage EXCEPT !.done = @ \cup {fh}]
    /\ UNCHANGED <<diff_pc, diff_content, i, current_file, current_hunk, language_hint,
                   include_types, result_patch, generated>>

\* diff_parser.py:899
TestPatchTypes == {"test", "mixed"}

\* faulty variant: unknown hunks are left out of the code patch
CodePatchTypes_CodeOnly == {"code"}

\* diff_parser.py:947
CodePatchTypes == {"code", "unknown"}

\* generate_test_patch_from_hunks(diff_content, language).  The function
\* parses and classifies the diff itself; parse_diff and classify_all_hunks
\* are functions of the diff and of the language, so the action starts from
\* the files parsed and classified for this diff and this language.
GenerateTestPatch ==
    /\ diff_pc = "classified"
    /\ generated' = [generated EXCEPT !.test = <<reconstruct_patch(files, TestPatchTypes)>>]
    /\ diff_pc' = "test_patch"
    /\ UNCHANGED <<parse_vars, language_hint, include_types, result_patch, stage>>

\* generate_code_patch_from_hunks(diff_content, language), on the same diff
\* and language
GenerateCodePatch ==
    /\ diff_pc = "test_patch"
    /\ generated' = [generated EXCEPT !.code = <<reconstruct_patch(files, CodePatchTypes)>>]
    /\ diff_pc' = "patches"
    /\ UNCHANGED <<parse_vars, language_hint, include_types, result_patch, stage>>

DiffNext ==
    (ParseNext \/ Classify \/ ReconstructParsed \/ Reconstruct
        \/ GenerateTestPatch \/ GenerateCodePatch
        \/ BeginConcurrent \/ LabelHunk \/ DefaultHunk)
    /\ UNCHANGED <<nm_vars, cat_vars, idx_vars, inf_vars, dd_vars>>

SpecDiff == DiffInit /\ [][DiffNext]_vars

-----------------------------------------------------------------------------
(* Properties of the diff parser and of the reconstruction, checked under SpecDiff *)

Reconstructed == diff_pc \in {"reconstructed", "reconstructed_parsed"}

\* the header block of a parsed file: the diff --git line, the extended
\* header lines, the path markers
HeaderBlock(file) ==
    <<file.header_lines[1]>> \o file.extended_header \o Tail(file.header_lines)

RECURSIVE Blocks(_, _)
\* the hunks of the given types, each as its header followed by its lines
Blocks(hunks, types) ==
    IF hunks = <<>> THEN <<>>
    ELSE (IF hunks[1].hunk_type \in types THEN <<hunks[1].header>> \o hunks[1].lines ELSE <<>>)
         \o Blocks(Tail(hunks), types)

HasHunkOf(file, types) == \E k \in 1..Len(file.hunks) : file.hunks[k].hunk_type \in types

RECURSIVE EveryFile(_)
\* every file with its header and all of its hunks
EveryFile(file_diffs) ==
    IF file_diffs = <<>> THEN <<>>
    ELSE HeaderBlock(file_diffs[1]) \o Blocks(file_diffs[1].hunks, HunkTypes)
         \o EveryFile(Tail(file_diffs))

RECURSIVE SelectedFiles(_, _)
\* a binary file as its header if code or unknown is asked for, another file
\* as its header and its hunks of the types if it has one
SelectedFiles(file_diffs, types) ==
    IF file_diffs = <<>> THEN <<>>
    ELSE (IF file_diffs[1].is_binary
          THEN IF types \cap {"code", "unknown"} # {} THEN HeaderBlock(file_diffs[1]) ELSE <<>>
          ELSE IF HasHunkOf(file_diffs[1], types)
               THEN HeaderBlock(file_diffs[1]) \o Blocks(file_diffs[1].hunks, types)
               ELSE <<>>)
         \o SelectedFiles(Tail(file_diffs), types)

\* C6 as stated: reconstruction with all four types keeps every file of the
\* diff, files without hunks included, with all of its hunks.
C6_EveryFilePreserved ==
    (Reconstructed /\ include_types = HunkTypes) => result_patch = EveryFile(files)

RECURSIVE FilesWithContent(_)
\* the binary files as their header, the other files that have a hunk with
\* their header and all of their hunks
FilesWithContent(file_diffs) ==
    IF file_diffs = <<>> THEN <<>>
    ELSE (IF file_diffs[1].is_binary THEN HeaderBlock(file_diffs[1])
          ELSE IF file_diffs[1].hunks # <<>>
               THEN HeaderBlock(file_diffs[1]) \o Blocks(file_diffs[1].hunks, HunkTypes)
               ELSE <<>>)
         \o FilesWithContent(Tail(file_diffs))

\* C6 amended: reconstruction with all four types keeps, in order, every
\* non-binary file that has a hunk, with its header and all of its parsed
\* hunks, and every binary file with its header alone; a non-binary file
\* without hunks is left out.
C6_FilesWithHunksPreserved ==
    (Reconstructed /\ include_types = HunkTypes) => result_patch = FilesWithContent(files)

\* a file with a hunk that holds a line is kept next to a file without hunks
C6_Witness ==
    /\ Reconstructed
    /\ include_types = HunkTypes
    /\ \E k \in 1..Len(files) :
          /\ ~files[k].is_binary
          /\ \E h \in 1..Len(files[k].hunks) : files[k].hunks[h].lines # <<>>
    /\ \E k \in 1..Len(files) : ~files[k].is_binary /\ files[k].hunks = <<>>

RECURSIVE RawHunkLines(_, _, _, _)
\* For each diff --git line of the diff a file, for each @@ header of the
\* file a hunk: the raw lines that follow the header up to the next @@
\* header or diff --git line.  done: the files passed; file: the hunks of the
\* file being read, if any.
RawHunkLines(lines, k, done, file) ==
    IF k > Len(lines) THEN done \o file
    ELSE IF IsDiffHeader(lines[k]) THEN RawHunkLines(lines, k + 1, done \o file, << <<>> >>)
    ELSE IF file = <<>> THEN RawHunkLines(lines, k + 1, done, file)
    ELSE IF HunkHeaderMatch(lines[k]) # <<>>
         THEN RawHunkLines(lines, k + 1, done, <<Append(file[1], <<>>)>>)
    ELSE IF file[1] = <<>> THEN RawHunkLines(lines, k + 1, done, file)
    ELSE RawHunkLines(lines, k + 1, done,
                      << [file[1] EXCEPT ![Len(file[1])] = Append(@, lines[k])] >>)

\* the lines of the hunks of the parsed files
ParsedHunkLines ==
    [f \in 1..Len(files) |->
        [h \in 1..Len(files[f].hunks) |-> files[f].hunks[h].lines]]

\* C7 as stated: the hunks of parse_diff hold, in order and once each, every
\* raw line that follows a hunk header of a file up to the next hunk header
\* or diff --git line, lines of no known pattern included.
C7_HunksPartition ==
    (diff_pc = "parsed" /\ ~IsBlank(diff_content))
        => ParsedHunkLines = RawHunkLines(diff_content, 1, <<>>, <<>>)

\* C10: reconstruct_patch writes a non-binary file if and only if it has a
\* hunk of a type in include_types, as its full header and those hunks in
\* their order, and writes a binary file, as its header alone, if and only
\* if code or unknown is in include_types.
C10_Selection == Reconstructed => result_patch = SelectedFiles(files, include_types)

\* a classified file is written with one of its hunks and without another
C10_Witness ==
    /\ diff_pc = "reconstructed"
    /\ \E k \in 1..Len(files) :
          /\ ~files[k].is_binary
          /\ HasHunkOf(files[k], include_types)
          /\ HasHunkOf(files[k], HunkTypes \ include_types)

-----------------------------------------------------------------------------
(* Properties of the written patch and of the parsed files, checked under SpecDiff *)

\* the kind of a line by the patterns of parse_diff: 0 the diff --git line,
\* 1 an extended header line or the binary marker, 2 a path marker, 3 a hunk
\* header, 4 a hunk content line, 5 anything else
LineRank(line) ==
    IF IsDiffHeader(line) THEN 0
    ELSE IF IsExtendedHeader(line) \/ IsBinaryMarker(line) THEN 1
    ELSE IF IsOldFileLine(line) \/ IsNewFileLine(line) THEN 2
    ELSE IF HunkHeaderMatch(line) # <<>> THEN 3
    ELSE IF IsContentLine(line) THEN 4
    ELSE 5

\* a line of kind b may follow a line of kind a
MayFollow(a, b) ==
    \/ b = 0
    \/ b = 1 /\ a <= 1
    \/ b = 2 /\ a <= 2
    \/ b = 3 /\ a <= 4
    \/ b = 4 /\ a \in {3, 4}

\* the lines start with a diff --git line and, up to the next diff --git
\* line, go from extended header lines to path markers to hunks
GitOrdered(lines) ==
    \/ lines = <<>>
    \/ /\ LineRank(lines[1]) = 0
       /\ \A k \in 1..(Len(lines) - 1) : MayFollow(LineRank(lines[k]), LineRank(lines[k + 1]))

IsPieceOf(piece, lines) ==
    \E s \in 0..(Len(lines) - Len(piece)) : SubSeq(lines, s + 1, s + Len(piece)) = piece

\* reconstruct_patch writes the file
Written(file, types) ==
    IF file.is_binary THEN types \cap {"code", "unknown"} # {} ELSE HasHunkOf(file, types)

\* C11: the written patch is in git's order: each file starts with its diff
\* --git line, then come its extended header lines in parse order, then its
\* path markers, then each selected hunk as its header and its lines; no
\* extended header line comes after a path marker or a hunk of its file.
C11_GitOrder ==
    Reconstructed =>
        /\ GitOrdered(result_patch)
        /\ \A k \in 1..Len(files) :
              Written(files[k], include_types) =>
                  /\ LineRank(files[k].header_lines[1]) = 0
                  /\ \A e \in 1..Len(files[k].extended_header) :
                        LineRank(files[k].extended_header[e]) = 1
                  /\ \A m \in 2..Len(files[k].header_lines) :
                        LineRank(files[k].header_lines[m]) = 2
                  /\ IsPieceOf(<<files[k].header_lines[1]>> \o files[k].extended_header
                                  \o Tail(files[k].header_lines)
                                  \o (IF files[k].is_binary THEN <<>>
                                      ELSE Blocks(files[k].hunks, include_types)),
                               result_patch)

\* a file whose path marker came before its extended header line in the diff
\* is written with a hunk
C11_Witness ==
    /\ Reconstructed
    /\ Len(diff_content) >= 4
    /\ LineRank(diff_content[2]) = 2
    /\ LineRank(diff_content[3]) = 1
    /\ Len(files) = 1
    /\ files[1].extended_header # <<>>
    /\ Len(files[1].header_lines) = 2
    /\ HasHunkOf(files[1], include_types)
    /\ result_patch # <<>>

\* the positions of the lines that match the diff --git header
HeaderAt(lines) == {p \in 1..Len(lines) : IsDiffHeader(lines[p])}

\* the position of the diff --git line that follows position p, or the end
NextHeaderAt(lines, p) ==
    IF \E q \in HeaderAt(lines) : q > p
    THEN CHOOSE q \in HeaderAt(lines) : q > p /\ \A r \in HeaderAt(lines) : r > p => q <= r
    ELSE Len(lines) + 1

\* how many diff --git lines stand at or before position p
HeaderCount(lines, p) == Cardinality({q \in HeaderAt(lines) : q <= p})

IsHunkHeaderLine(line) == HunkHeaderMatch(line) # <<>>

\* the lines that match the @@ header from position p + 1 up to the next
\* diff --git line
HunkHeadersAfter(lines, p) ==
    SelectSeq(SubSeq(lines, p + 1, NextHeaderAt(lines, p) - 1), IsHunkHeaderLine)

HunkHeadersOf(file) == [h \in 1..Len(file.hunks) |-> file.hunks[h].header]

\* C12: parse_diff returns one FileDiff per line that matches the diff --git
\* header, in order; each owns the hunks of the @@ headers between its header
\* and the next diff --git line or the end of the input, in order; an input
\* without a diff --git line gives the empty list.
C12_FilesAndHunks ==
    diff_pc = "parsed" =>
        /\ Len(files) = Cardinality(HeaderAt(diff_content))
        /\ \A p \in HeaderAt(diff_content) :
              /\ files[HeaderCount(diff_content, p)].header_lines[1] = diff_content[p]
              /\ HunkHeadersOf(files[HeaderCount(diff_content, p)])
                   = HunkHeadersAfter(diff_content, p)

\* two files, each with a hunk, the last hunk closed by the end of the input
C12_Witness ==
    /\ diff_pc = "parsed"
    /\ Len(files) = 2
    /\ files[1].hunks # <<>>
    /\ files[2].hunks # <<>>
    /\ IsHunkHeaderLine(diff_content[Len(diff_content)])

\* the language classify_all_hunks passes on for the file, lines 782-783
LanguageOf(file) == LanguageOrDetected(language_hint, file)

\* the file is classified by classify_hunk, with a pattern list, and its path
\* is not a test path
ScoredFile(file) ==
    /\ LanguageOf(file) # <<>>
    /\ LanguageOf(file)[1] # "rust"
    /\ LanguageTestPatterns(LanguageOf(file)[1]) # <<>>
    /\ ~is_test_filepath(FilePath(file))

\* the category and the confidence the thresholds give the normalized score
\* score / max_score: test from 0.3, mixed from 0.1 up to 0.3, code under 0.1
ByStatedThresholds(score, max_score) ==
    IF 10 * score >= 3 * max_score
    THEN <<"test", IF 2 * score >= max_score THEN <<1, 1>> ELSE Fraction(2 * score, max_score)>>
    ELSE IF 10 * score >= max_score
    THEN <<"mixed", Fraction(score, max_score)>>
    ELSE <<"code", Fraction(max_score - score, max_score)>>

HunkScore(file, hunk) == TestScore(LanguageTestPatterns(LanguageOf(file)[1]), hunk)

HunkMaxScore(file) == MaxPossibleScore(LanguageTestPatterns(LanguageOf(file)[1]))

\* C13 as stated: classify_hunk gives a hunk of normalized score s the
\* category test with confidence min(2s, 1) when s >= 0.3, mixed with
\* confidence s when 0.1 <= s < 0.3, code with confidence 1 - s when s < 0.1,
\* s = 0.1 and s = 0.3 included.
C13_Thresholds ==
    diff_pc = "classified" =>
        \A k \in 1..Len(files) :
            ScoredFile(files[k]) =>
                \A h \in 1..Len(files[k].hunks) :
                    <<files[k].hunks[h].hunk_type, files[k].hunks[h].confidence>>
                        = ByStatedThresholds(HunkScore(files[k], files[k].hunks[h]),
                                             HunkMaxScore(files[k]))

RustFile(file) == LanguageOf(file) = <<"rust">>

\* a >= b for two fractions
FractionAtLeast(a, b) == a[1] * b[2] >= b[1] * a[2]

\* the category the priority order gives a hunk of a Rust file
RustCategory(file, hunk) ==
    IF ContextIsTest(hunk.context) THEN "test"
    ELSE IF HasTestMarkers(AddedContent(hunk)) THEN "test"
    ELSE IF HasTestMarkers(RemovedContent(hunk)) THEN "mixed"
    ELSE IF is_test_filepath(FilePath(file)) THEN "test"
    ELSE "code"

\* C14: a hunk of a Rust file is test if its header context names a test
\* module or function, else test if its added lines hold a test marker, else
\* mixed if its removed lines hold one, else code (test when the path is a
\* test path); markers in context lines alone change nothing; with a context
\* fn test_... and a marker in the added lines it is test with confidence
\* at least 0.9.
C14_RustPriority ==
    diff_pc = "classified" =>
        \A k \in 1..Len(files) :
            RustFile(files[k]) =>
                \A h \in 1..Len(files[k].hunks) :
                    /\ files[k].hunks[h].hunk_type = RustCategory(files[k], files[k].hunks[h])
                    /\ (/\ ContextIsTest(files[k].hunks[h].context)
                        /\ HasTestMarkers(AddedContent(files[k].hunks[h])))
                          => FractionAtLeast(files[k].hunks[h].confidence, <<9, 10>>)

\* a Rust hunk under fn test_something whose added lines hold #[test]
C14_Witness ==
    /\ diff_pc = "classified"
    /\ \E k \in 1..Len(files) :
          /\ RustFile(files[k])
          /\ \E h \in 1..Len(files[k].hunks) :
                /\ FnTestContext(ToLower(files[k].hunks[h].context))
                /\ HasTestMarkers(AddedContent(files[k].hunks[h]))
                /\ HasTestMarkers(ContextContent(files[k].hunks[h]))
                /\ files[k].hunks[h].hunk_type = "test"

\* what the content of the hunk alone gives: nothing without a language, the
\* Rust scan for rust, classify_hunk for another language
ContentClassified(file, hunk) ==
    IF LanguageOf(file) = <<>> THEN Classified(hunk, "unknown", ConfidenceZero)
    ELSE IF RustFile(file) THEN ClassifyRustHunk(hunk)
    ELSE classify_hunk(hunk, LanguageOf(file)[1])

TestPathFile(file) == is_test_filepath(FilePath(file))

\* C15: in a file whose path is a test path no hunk is left code or unknown,
\* whatever the language: a hunk whose content gave code or unknown is test
\* with confidence at least 0.6, a hunk whose content gave test or mixed
\* keeps that category and its confidence.
C15_TestPathOverride ==
    diff_pc = "classified" =>
        \A k \in 1..Len(files) :
            TestPathFile(files[k]) =>
                \A h \in 1..Len(files[k].hunks) :
                    /\ files[k].hunks[h].hunk_type \notin {"code", "unknown"}
                    /\ IF ContentClassified(files[k], files[k].hunks[h]).hunk_type
                            \in {"code", "unknown"}
                       THEN /\ files[k].hunks[h].hunk_type = "test"
                            /\ FractionAtLeast(files[k].hunks[h].confidence, <<3, 5>>)
                       ELSE files[k].hunks[h] = ContentClassified(files[k], files[k].hunks[h])

\* a file in a test path with a hunk whose content gave code, now test, and
\* a hunk whose content gave test
C15_Witness ==
    /\ diff_pc = "classified"
    /\ \E k \in 1..Len(files) :
          /\ TestPathFile(files[k])
          /\ \E h \in 1..Len(files[k].hunks) :
                /\ ContentClassified(files[k], files[k].hunks[h]).hunk_type = "code"
                /\ files[k].hunks[h].hunk_type = "test"
          /\ \E h \in 1..Len(files[k].hunks) :
                ContentClassified(files[k], files[k].hunks[h]).hunk_type = "test"

\* no file of the diff is in a test path and no hunk matches a pattern of
\* the typescript list
PlainTypeScriptDiff ==
    /\ files # <<>>
    /\ \A k \in 1..Len(files) :
          /\ ~TestPathFile(files[k])
          /\ \A h \in 1..Len(files[k].hunks) :
                TestScore(LanguageTestPatterns("typescript"), files[k].hunks[h]) = 0

\* C16 as stated: for a diff of files outside the test paths and without
\* test markers, classify_all_hunks gives every hunk code with confidence at
\* least 0.9 under the hint "TypeScript" as under the hint "typescript", the
\* two hints giving the same categories and confidences.
C16_HintCasing ==
    (/\ diff_pc = "classified"
     /\ language_hint \in { <<"TypeScript">>, <<"typescript">> }
     /\ PlainTypeScriptDiff)
        => /\ \A k \in 1..Len(files) : \A h \in 1..Len(files[k].hunks) :
                 /\ files[k].hunks[h].hunk_type = "code"
                 /\ FractionAtLeast(files[k].hunks[h].confidence, <<9, 10>>)
           /\ classify_all_hunks(files, <<"TypeScript">>)
                 = classify_all_hunks(files, <<"typescript">>)

\* the language of the file is undetected or has no entry in the registry
UnregisteredFile(file) ==
    LanguageOf(file) = <<>> \/ LanguageOf(file)[1] \notin RegistryLanguages

\* C17: when the language of a file is undetected or has no registry entry
\* and the path is not a test path, every hunk of the file is unknown with
\* confidence 0.
C17_UnknownLanguage ==
    diff_pc = "classified" =>
        \A k \in 1..Len(files) :
            (UnregisteredFile(files[k]) /\ ~TestPathFile(files[k])) =>
                \A h \in 1..Len(files[k].hunks) :
                    /\ files[k].hunks[h].hunk_type = "unknown"
                    /\ files[k].hunks[h].confidence = <<0, 1>>

\* a hunk with lines, in a file outside the test paths, classified under a
\* language name that has no entry
C17_Witness ==
    /\ diff_pc = "classified"
    /\ \E k \in 1..Len(files) :
          /\ LanguageOf(files[k]) # <<>>
          /\ LanguageOf(files[k])[1] \notin RegistryLanguages
          /\ ~TestPathFile(files[k])
          /\ \E h \in 1..Len(files[k].hunks) :
                /\ files[k].hunks[h].lines # <<>>
                /\ files[k].hunks[h].hunk_type = "unknown"

-----------------------------------------------------------------------------
(* Properties of the categorizer and of the relevance filter, checked under SpecCat *)

\* the names a report lists as passed and as failed
MixedOutcomes(r) == PassedOf(r) \cap FailedOf(r)

\* C18 as stated: a name that one report lists as passed and as failed counts
\* as passed in that run: listed so by the test-only run (three-run mode) or
\* by the baseline run (fallback mode), it is not in FAIL_TO_PASS.
C18_PassedWins ==
    /\ ValidatedCall => F2P \cap MixedOutcomes(test_patch_only_result) = {}
    /\ FallbackCall => F2P \cap MixedOutcomes(base_result) = {}

\* the report is None or an empty dict
Absent(r) == r.isNone \/ DOMAIN r.d = {}

\* the keys under which a report can hold its passed and its failed list
PassedKeys == {"tests_passed", "passed"}

FailedKeys == {"tests_failed", "failed"}

LacksList(r, keys) == ~Absent(r) /\ DOMAIN r.d \cap keys = {}

\* the dict with an empty list under key, if it has none of keys
FilledUnder(d, keys, key) == IF DOMAIN d \cap keys = {} THEN d @@ (key :> {}) ELSE d

\* a present report with an empty list for each list it lacks
Filled(r) ==
    IF Absent(r) THEN r
    ELSE DictResult(FilledUnder(FilledUnder(r.d, PassedKeys, "passed"), FailedKeys, "failed"))

\* the result of the same call with every lacking list given as an empty list
FilledCallResult ==
    IF cat_pc = "three_run"
    THEN categorize_tests_three_run(Filled(base_result), Filled(test_patch_only_result),
                                    Filled(pr_result), patch_content, language)
    ELSE categorize_tests(Filled(base_result), Filled(pr_result), patch_content, language,
                          NoneResult)

\* C21: if the baseline report or the full report is absent (None or empty) the
\* categorizer returns two empty lists, and a report that lacks the passed or
\* the failed list is treated as having an empty list for it.
C21_MissingInputs ==
    Called =>
        /\ (Absent(base_result) \/ Absent(pr_result)) => (F2P = {} /\ P2P = {})
        /\ cat_result = FilledCallResult

\* a call with a baseline report that has no failed list and a result that is not empty
C21_Witness ==
    /\ Called
    /\ LacksList(base_result, FailedKeys)
    /\ ~Absent(pr_result)
    /\ F2P \cup P2P # {}

-----------------------------------------------------------------------------
(* The change index, F2P_finder/diff_utils.py:64-74 *)

\* Path(p).parts of a relative path: empty and "." segments are dropped
PureParts(file_path) ==
    SelectSeq(Split(file_path, "/"), LAMBDA part : part # <<>> /\ part # <<".">>)

\* path.parts[:-1]
DirectoryParts(file_path) ==
    Slice(PureParts(file_path), 1, Len(PureParts(file_path)) - 1)

\* F2P_finder/diff_utils.py:70
StructuralNames ==
    {<<"s", "r", "c">>, <<"m", "a", "i", "n">>, <<"t", "e", "s", "t">>, <<"t", "e", "s", "t", "s">>, <<"l", "i", "b">>, <<"p", "k", "g">>, <<"i", "n", "t", "e", "r", "n", "a", "l">>, <<"a", "p", "p">>}

\* faulty variant: no stoplist
DirectoryModules_Unfiltered(file_path) ==
    {ToLower(part) : part \in ItemsOf(DirectoryParts(file_path))}

\* F2P_finder/diff_utils.py:68-72: the lowercased directory segments that are
\* not structural names
DirectoryModules(file_path) ==
    {ToLower(part) : part \in ItemsOf(DirectoryParts(file_path))} \ StructuralNames

\* F2P_finder/diff_utils.py:66-73: what one changed file adds
FileModules(file_path) ==
    DirectoryModules(file_path) \cup {ToLower(PathStem(file_path))}

extract_changed_modules(file_paths) == UNION {FileModules(f) : f \in file_paths}

-----------------------------------------------------------------------------
(* One change index and one relevance check: the changed files of a patch,  *)
(* at most MaxChanged of them, a test name and a language.                   *)

MaxChanged == 3

T_plugin == <<"o", "r", "g", ".", "a", "c", "m", "e", ".", "c", "o", "r", "e", ".", "P", "l", "u", "g", "i", "n", "M", "a", "n", "a", "g", "e", "r", "T", "e", "s", "t", "#", "t", "e", "s", "t", "L", "o", "a", "d">>

T_processor == <<"a", ".", "F", "o", "o", "T", "e", "s", "t", "#", "p", "r", "o", "c", "e", "s", "s", "o", "r", "R", "u", "n", "s">>

T_it == <<"o", "r", "g", ".", "a", "c", "m", "e", ".", "w", "e", "b", ".", "F", "o", "o", "I", "T", "#", "r", "u", "n">>

T_api == <<"o", "r", "g", ".", "a", "c", "m", "e", ".", "c", "o", "r", "e", ".", "a", "p", "i", ".", "B", "a", "r", "T", "e", "s", "t">>

T_parser == <<"t", "e", "s", "t", "s", "/", "t", "e", "s", "t", "_", "p", "a", "r", "s", "e", "r", ".", "p", "y", ":", ":", "t", "e", "s", "t", "_", "m", "a", "i", "n">>

T_utils == <<"u", "t", "i", "l", "s", ".", "s", "p", "e", "c", ".", "t", "s", " ", ">", " ", "a", "d", "d", "s">>

IdxTestNames == {T_plugin, T_processor, T_it, T_api, T_parser, T_utils}

F_plugin == <<"s", "r", "c", "/", "m", "a", "i", "n", "/", "j", "a", "v", "a", "/", "o", "r", "g", "/", "a", "c", "m", "e", "/", "c", "o", "r", "e", "/", "P", "l", "u", "g", "i", "n", "M", "a", "n", "a", "g", "e", "r", ".", "j", "a", "v", "a">>

F_processor == <<"p", "r", "o", "c", "e", "s", "s", "o", "r", "/", "s", "r", "c", "/", "m", "a", "i", "n", "/", "j", "a", "v", "a", "/", "B", "a", "r", ".", "j", "a", "v", "a">>

F_it == <<"s", "r", "c", "/", "t", "e", "s", "t", "/", "j", "a", "v", "a", "/", "o", "r", "g", "/", "a", "c", "m", "e", "/", "w", "e", "b", "/", "F", "o", "o", "I", "T", ".", "j", "a", "v", "a">>

F_api == <<"s", "r", "c", "/", "m", "a", "i", "n", "/", "j", "a", "v", "a", "/", "o", "r", "g", "/", "a", "c", "m", "e", "/", "c", "o", "r", "e", "/", "a", "p", "i", "/", "B", "a", "z", ".", "j", "a", "v", "a">>

F_main == <<"s", "r", "c", "/", "m", "a", "i", "n", ".", "p", "y">>

F_parser == <<"L", "i", "b", "/", "P", "a", "r", "s", "i", "n", "g", "/", "p", "a", "r", "s", "e", "r", ".", "p", "y">>

F_utils == <<"A", "p", "p", "/", "w", "e", "b", "/", "u", "t", "i", "l", "s", ".", "s", "p", "e", "c", ".", "t", "s">>

F_kt == <<"s", "r", "c", "/", "m", "a", "i", "n", "/", "k", "o", "t", "l", "i", "n", "/", "Q", "u", "x", ".", "k", "t">>

IdxChangedFiles == {F_plugin, F_processor, F_it, F_api, F_main, F_parser, F_utils, F_kt}

IdxLanguages == {"java", "python", "typescript", "go"}

IdxInit ==
    /\ idx_pc = "patch"
    /\ idx_test \in IdxTestNames
    /\ idx_files \in {fs \in SUBSET IdxChangedFiles : Cardinality(fs) <= MaxChanged}
    /\ idx_language \in IdxLanguages
    /\ idx_modules = {}
    /\ idx_relevant = FALSE
    /\ NmIdle
    /\ CatIdle
    /\ DiffIdle
    /\ InfIdle
    /\ DdIdle

\* changed_modules = extract_changed_modules(changed_files)
ExtractModules ==
    /\ idx_pc = "patch"
    /\ idx_modules' = extract_changed_modules(idx_files)
    /\ idx_pc' = "indexed"
    /\ UNCHANGED <<idx_test, idx_files, idx_language, idx_relevant>>

\* faulty variant: a test whose name holds a changed module is relevant too
RelevanceCall_ModuleMatch(name, changed_files, changed_modules, lang) ==
    \/ is_test_relevant_to_changes(name, changed_files, lang)
    \/ \E m \in changed_modules : Contains(ToLower(name), m)

\* is_test_relevant_to_changes as it is called, test_results.py:663 and 800,
\* with its four parameters of lines 221-226: no line of its body, 247-509,
\* reads changed_modules
RelevanceCall(name, changed_files, changed_modules, lang) ==
    is_test_relevant_to_changes(name, changed_files, lang)

\* is_test_relevant_to_changes(test, changed_files, changed_modules, language)
CheckRelevance ==
    /\ idx_pc = "indexed"
    /\ idx_relevant' = RelevanceCall(idx_test, idx_files, idx_modules, idx_language)
    /\ idx_pc' = "checked"
    /\ UNCHANGED <<idx_test, idx_files, idx_language, idx_modules>>

IdxNext ==
    (ExtractModules \/ CheckRelevance) /\ UNCHANGED <<nm_vars, cat_vars, diff_vars, inf_vars, dd_vars>>

SpecIndex == IdxInit /\ [][IdxNext]_vars

-----------------------------------------------------------------------------
(* Properties of the change index and of the relevance check, checked under *)
(* SpecIndex                                                                 *)

Indexed == idx_pc \in {"indexed", "checked"}

\* the relevance check has run: a candidate is kept when idx_relevant is TRUE
Checked == idx_pc = "checked"

IsJava == idx_language = "java"

\* the test's own file was changed: a changed file has the test class as its stem
OwnFileChanged ==
    IsJava /\ \E f \in idx_files : PathStem(f) = TestClassName(idx_test)

\* java: a changed file's stem is the test class without its test suffix, or a
\* stem longer than three characters occurs in the test class name
ClassMatchesStem ==
    /\ IsJava
    /\ \E f \in idx_files :
           \/ PathStem(f) = BaseClassBeingTested(TestClassName(idx_test))
           \/ Len(PathStem(f)) > 3 /\ Contains(TestClassName(idx_test), PathStem(f))

\* the stem the other languages look for: lowercased, and for javascript and
\* typescript without ".test" and ".spec"
StemKey(f) ==
    IF idx_language \in {"javascript", "typescript"}
    THEN ReplaceAll(ReplaceAll(ToLower(PathStem(f)), S_dot_test), S_dot_spec)
    ELSE ToLower(PathStem(f))

\* other languages: a stem longer than three characters occurs in the test name
NameHoldsStem ==
    /\ ~IsJava
    /\ \E f \in idx_files : Len(StemKey(f)) > 3 /\ Contains(ToLower(idx_test), StemKey(f))

\* the meaningful segments the test's package shares with the path of f
SharedSegments(f) ==
    {seg \in ItemsOf(PathParts(f)) \ CommonParts :
        seg \in ItemsOf(Split(ToLower(TestPackage(idx_test)), "."))}

\* java: the package shares two meaningful segments with a changed path
SharesPackage ==
    /\ IsJava
    /\ TestPackage(idx_test) # <<>>
    /\ \E f \in idx_files : Cardinality(SharedSegments(f)) >= 2

\* java: the method name holds a segment of a changed path
MethodNamesPath == IsJava /\ JavaMethodKeyword(TestMethod(idx_test), idx_files)

\* java: an integration test and at least three changed source files
IntegrationWithSources ==
    IsJava /\ JavaIntegration(TestClassName(idx_test), TestPackage(idx_test), idx_files)

StatedConditions == OwnFileChanged \/ ClassMatchesStem \/ NameHoldsStem \/ SharesPackage

DirectoryNames ==
    {ToLower(part) : part \in UNION {ItemsOf(DirectoryParts(f)) : f \in idx_files}}

\* the lowercased stems of the changed files
StemNames == {ToLower(PathStem(f)) : f \in idx_files}

-----------------------------------------------------------------------------
(* Patch-only inference, the patch reader: F2P_finder/models.py and parse_patch, F2P_finder/diff_utils.py:13-57 *)

\* A patch text is the list of its lines, patch_text.splitlines().

\* models.py:8-10
Hunk(header) == [header |-> header, lines |-> <<>>]

\* models.py:23-29
FilePatch(path, line) ==
    [path |-> path, header_lines |-> <<line>>, hunks |-> <<>>,
     is_new_file |-> FALSE, is_deleted_file |-> FALSE]

\* the lines of the hunk that start with sign and not with three of it, the sign dropped
SignedLines(lines, sign) ==
    [k \in 1..Len(SelectSeq(lines, LAMBDA l : StartsWith(l, <<sign>>)
                                               /\ ~StartsWith(l, <<sign, sign, sign>>))) |->
        Tail(SelectSeq(lines, LAMBDA l : StartsWith(l, <<sign>>)
                                          /\ ~StartsWith(l, <<sign, sign, sign>>))[k])]

\* models.py:12-13
added_lines(hunk) == SignedLines(hunk.lines, "+")

\* models.py:15-16
removed_lines(hunk) == SignedLines(hunk.lines, "-")

\* the state of the loop of parse_patch: the files closed so far, the current
\* file and the current hunk (<<>> for None)
PatchState(closed, file, hunk) == [files |-> closed, file |-> file, hunk |-> hunk]

\* diff_utils.py:24-28 and 52-55: the current file, if any, closed with its current hunk
ClosedFiles(st) ==
    IF st.file = <<>> THEN st.files
    ELSE IF st.hunk = <<>> THEN Append(st.files, st.file[1])
    ELSE Append(st.files, [st.file[1] EXCEPT !.hunks = Append(@, st.hunk[1])])

\* diff_utils.py:41-44: the mode lines set the flags of the current file
WithModeFlag(file, line) ==
    IF StartsWith(line, S_new_file_mode \o <<" ">>) THEN [file EXCEPT !.is_new_file = TRUE]
    ELSE IF StartsWith(line, S_deleted_file_mode \o <<" ">>)
    THEN [file EXCEPT !.is_deleted_file = TRUE]
    ELSE file

\* diff_utils.py:46-50: a line after the mode check, inside a hunk or before the first
AfterModeCheck(st, file, line) ==
    IF st.hunk # <<>>
    THEN IF line # <<>> /\ line[1] \in {"+", "-", " ", "\\"}
         THEN PatchState(st.files, <<file>>, <<[st.hunk[1] EXCEPT !.lines = Append(@, line)]>>)
         ELSE PatchState(st.files, <<file>>, st.hunk)
    ELSE PatchState(st.files, <<[file EXCEPT !.header_lines = Append(@, line)]>>, st.hunk)

\* diff_utils.py:21-50: the body of the loop for one line
PatchStep(st, line) ==
    IF IsDiffHeader(line)
    THEN PatchState(ClosedFiles(st), <<FilePatch(DiffHeaderNew(line), line)>>, <<>>)
    ELSE IF st.file = <<>> THEN st
    ELSE IF StartsWith(line, <<"@", "@">>)
    THEN PatchState(st.files,
                    IF st.hunk = <<>> THEN st.file
                    ELSE <<[st.file[1] EXCEPT !.hunks = Append(@, st.hunk[1])]>>,
                    <<Hunk(line)>>)
    ELSE AfterModeCheck(st, WithModeFlag(st.file[1], line), line)

RECURSIVE PatchLoop(_, _)
PatchLoop(st, lines) ==
    IF lines = <<>> THEN st ELSE PatchLoop(PatchStep(st, Head(lines)), Tail(lines))

\* parse_patch: the files of a patch text, none for a blank text
parse_patch(patch_text) ==
    IF IsBlank(patch_text) THEN <<>>
    ELSE ClosedFiles(PatchLoop(PatchState(<<>>, <<>>, <<>>), patch_text))

\* diff_utils.py:60-61
extract_changed_files(patch_text) ==
    {parse_patch(patch_text)[k].path : k \in 1..Len(parse_patch(patch_text))}

-----------------------------------------------------------------------------
(* Patch-only inference, the language rules: F2P_fiinder/language_rules.py (python, go, d and languages without rules) *)

\* language_rules.py:10-16
LanguageAlias(lang) ==
    IF lang = <<"j", "s">> THEN <<"j", "a", "v", "a", "s", "c", "r", "i", "p", "t">>
    ELSE IF lang = <<"t", "s">> THEN <<"t", "y", "p", "e", "s", "c", "r", "i", "p", "t">>
    ELSE IF lang = <<"g", "o", "l", "a", "n", "g">> THEN <<"g", "o">>
    ELSE IF lang = <<"c", "+", "+">> THEN <<"c", "p", "p">>
    ELSE IF lang = <<"k", "t">> THEN <<"k", "o", "t", "l", "i", "n">>
    ELSE lang

\* language_rules.py:19-21
normalize_language(lang) == LanguageAlias(ToLower(Strip(lang)))

RECURSIVE SplitWords(_)
\* s.split(): the runs of characters that are not whitespace
SplitWords(s) ==
    IF LStrip(s) = <<>> THEN <<>>
    ELSE <<Slice(LStrip(s), 1, Min({k \in 1..(Len(LStrip(s)) + 1) :
                                       k > Len(LStrip(s)) \/ IsSpace(LStrip(s)[k])}) - 1)>>
         \o SplitWords(Slice(LStrip(s),
                             Min({k \in 1..(Len(LStrip(s)) + 1) :
                                    k > Len(LStrip(s)) \/ IsSpace(LStrip(s)[k])}),
                             Len(LStrip(s))))

RECURSIVE JoinWith(_, _)
\* sep.join(parts)
JoinWith(parts, sep) ==
    IF parts = <<>> THEN <<>>
    ELSE IF Len(parts) = 1 THEN parts[1]
    ELSE parts[1] \o sep \o JoinWith(Tail(parts), sep)

\* diff_utils.py:119-120
normalize_test_id(test_id) == JoinWith(SplitWords(test_id), <<" ">>)

RECURSIVE WordRunAt(_, _)
\* the length of the run of word characters that starts at position k of s
WordRunAt(s, k) ==
    IF k > Len(s) \/ ~IsWordChar(s[k]) THEN 0 ELSE 1 + WordRunAt(s, k + 1)

\* where the name of ^\s*<keyword>\s+(<prefix>[A-Za-z0-9_]+)\s*\( starts in the
\* stripped line: after the keyword and its whitespace
NameStart(clean, keyword) == Len(keyword) + 1 + SpaceRunAt(clean, Len(keyword) + 1)

\* the length of the name that starts at p: the prefix and the word characters after it
NameLen(clean, p, prefix) == Len(prefix) + WordRunAt(clean, p + Len(prefix))

\* the stripped line matches ^\s*<keyword>\s+(<prefix>[A-Za-z0-9_]+)\s*\(
DeclaresTest(clean, keyword, prefix) ==
    /\ StartsWith(clean, keyword)
    /\ SpaceRunAt(clean, Len(keyword) + 1) >= 1
    /\ StartsWithAt(clean, NameStart(clean, keyword), prefix)
    /\ WordRunAt(clean, NameStart(clean, keyword) + Len(prefix)) >= 1
    /\ StartsWithAt(clean,
                    NameStart(clean, keyword) + NameLen(clean, NameStart(clean, keyword), prefix)
                    + SpaceRunAt(clean, NameStart(clean, keyword)
                                        + NameLen(clean, NameStart(clean, keyword), prefix)),
                    <<"(">>)

\* group(1) of the match
DeclaredName(clean, keyword, prefix) ==
    Slice(clean, NameStart(clean, keyword),
          NameStart(clean, keyword) + NameLen(clean, NameStart(clean, keyword), prefix) - 1)

\* language_rules.py:59-112 for a normalized language: the python, go and d
\* branches, and no test id for a language without a branch
extract_test_ids(lang, file_path, line) ==
    IF lang = <<"p", "y", "t", "h", "o", "n">> /\ DeclaresTest(Strip(line), <<"d", "e", "f">>, <<"t", "e", "s", "t", "_">>)
    THEN {normalize_test_id(file_path \o <<":", ":">> \o DeclaredName(Strip(line), <<"d", "e", "f">>, <<"t", "e", "s", "t", "_">>))}
    ELSE IF lang = <<"g", "o">> /\ DeclaresTest(Strip(line), <<"f", "u", "n", "c">>, <<"T", "e", "s", "t">>)
    THEN {normalize_test_id(file_path \o <<"/">> \o DeclaredName(Strip(line), <<"f", "u", "n", "c">>, <<"T", "e", "s", "t">>))}
    ELSE IF lang = <<"d">> /\ Contains(Strip(line), <<"u", "n", "i", "t", "t", "e", "s", "t">>)
    THEN {normalize_test_id(file_path \o <<":", ":", "u", "n", "i", "t", "t", "e", "s", "t">>)}
    ELSE {}

\* \b<word> at position k
WordAt(text, k, word) == StartsWithAt(text, k, word) /\ WordStartsAt(text, k)

\* \b<word>\b
SearchWord(text, word) ==
    \E k \in 1..Len(text) : WordAt(text, k, word) /\ WordEndsAt(text, k + Len(word))

\* \b<word>\w+\b
SearchWordAndMore(text, word) ==
    \E k \in 1..Len(text) : WordAt(text, k, word) /\ WordRunAt(text, k + Len(word)) >= 1

\* \b<word>\w*\b, for a word that ends in a word character
SearchWordPrefix(text, word) == \E k \in 1..Len(text) : WordAt(text, k, word)

\* \b<word>\s*\(
SearchWordOpen(text, word) ==
    \E k \in 1..Len(text) :
        /\ WordAt(text, k, word)
        /\ StartsWithAt(text, k + Len(word) + SpaceRunAt(text, k + Len(word)), <<"(">>)

\* language_rules.py:24-39 and 115-118: ASSERTION_PATTERNS of python, go and d,
\* and no pattern for a language without an entry
has_assertion_change(lang, line) ==
    IF lang = <<"p", "y", "t", "h", "o", "n">>
    THEN \/ SearchWord(line, <<"a", "s", "s", "e", "r", "t">>)
         \/ SearchWordAndMore(line, <<"s", "e", "l", "f", ".", "a", "s", "s", "e", "r", "t">>)
         \/ SearchWord(line, <<"p", "y", "t", "e", "s", "t", ".", "r", "a", "i", "s", "e", "s">>)
    ELSE IF lang = <<"g", "o">>
    THEN \/ \E w \in {<<"t", ".", "E", "r", "r", "o", "r">>, <<"t", ".", "F", "a", "t", "a", "l">>, <<"t", ".", "F", "a", "i", "l">>, <<"t", ".", "S", "k", "i", "p">>} : SearchWordPrefix(line, w)
         \/ SearchWordAndMore(line, <<"r", "e", "q", "u", "i", "r", "e", ".">>)
         \/ SearchWordAndMore(line, <<"a", "s", "s", "e", "r", "t", ".">>)
    ELSE IF lang = <<"d">> THEN SearchWordOpen(line, <<"a", "s", "s", "e", "r", "t">>)
    ELSE FALSE

IsQuote(c) == c \in {"'", "\""}

\* the closing quote of ['"]([^'"]{3,120})['"] for an opening quote at position at, or 0
ClosingQuote(line, at) ==
    IF \E j \in (at + 4)..Len(line) :
           /\ j - at - 1 <= 120
           /\ IsQuote(line[j])
           /\ \A q \in (at + 1)..(j - 1) : ~IsQuote(line[q])
    THEN CHOOSE j \in (at + 4)..Len(line) :
           /\ IsQuote(line[j])
           /\ \A q \in (at + 1)..(j - 1) : ~IsQuote(line[q])
    ELSE 0

RECURSIVE HasGenericString(_, _)
\* language_rules.py:54-56: re.findall from position at on finds a quoted text
\* that is not blank; a match takes its two quotes
HasGenericString(line, at) ==
    IF at > Len(line) THEN FALSE
    ELSE IF IsQuote(line[at]) /\ ClosingQuote(line, at) # 0
    THEN \/ Strip(Slice(line, at + 1, ClosingQuote(line, at) - 1)) # <<>>
         \/ HasGenericString(line, ClosingQuote(line, at) + 1)
    ELSE HasGenericString(line, at + 1)

\* language_rules.py:42-51
HasExpectedHint(line) ==
    \/ \E w \in {<<"e", "x", "p", "e", "c", "t", "e", "d">>, <<"s", "t", "a", "t", "u", "s">>, <<"s", "t", "a", "t", "u", "s", "c", "o", "d", "e">>, <<"m", "e", "s", "s", "a", "g", "e">>, <<"e", "r", "r", "o", "r">>, <<"e", "x", "c", "e", "p", "t", "i", "o", "n">>} :
           SearchWord(ToLower(line), w)
    \/ \E w \in {<<"t", "o", "B", "e">>, <<"t", "o", "E", "q", "u", "a", "l">>, <<"t", "o", "M", "a", "t", "c", "h">>} : SearchWord(line, w)

\* language_rules.py:121-124
has_expected_change(line) == HasGenericString(line, 1) /\ HasExpectedHint(line)

-----------------------------------------------------------------------------
(* Patch-only inference: F2P_fiinder/infer.py and the changed symbols and links of F2P_finder/diff_utils.py *)

\* infer.py:24-33, in hundredths (REFACTOR_ONLY is never added to a candidate)
SignalWeight(signal) ==
    CASE signal = "NEW_TEST_FILE" -> 70
      [] signal = "NEW_TEST_CASE" -> 70
      [] signal = "ASSERTION_CHANGED" -> 45
      [] signal = "EXPECTED_VALUE_CHANGED" -> 45
      [] signal = "TEST_LOGIC_CHANGED" -> 20
      [] signal = "SYMBOL_LINK_STRONG" -> 30
      [] signal = "MODULE_LINK" -> 15
      [] OTHER -> 0

\* infer.py:36-41
confidence_from_score(score) ==
    IF score >= 80 THEN "high" ELSE IF score >= 50 THEN "medium" ELSE "low"

Digits == <<"0", "1", "2", "3", "4", "5", "6", "7", "8", "9">>

RECURSIVE Decimal(_)
\* str(n) of a natural number
Decimal(n) == IF n < 10 THEN <<Digits[n + 1]>> ELSE Decimal(n \div 10) \o <<Digits[(n % 10) + 1]>>

\* infer.py:44-45, for the 1-based place of the hunk in its file
default_test_id(file_path, hunk_place) == file_path \o <<":", ":", "h", "u", "n", "k", "_">> \o Decimal(hunk_place)

\* infer.py:48-49
candidate_key(test_id, file_path) == test_id \o <<"@", "@">> \o file_path

\* diff_utils.py:107
TestPathTokens == {<<"/", "t", "e", "s", "t", "/">>, <<"/", "t", "e", "s", "t", "s", "/">>, <<"/", "s", "p", "e", "c", "/">>, <<"_", "_", "t", "e", "s", "t", "s", "_", "_">>, <<"/", "f", "i", "x", "t", "u", "r", "e", "s", "/">>, <<"/", "m", "o", "c", "k", "s", "/">>}

\* diff_utils.py:111-115
TestFileSuffixes ==
    {<<"_", "t", "e", "s", "t", ".", "p", "y">>, <<"t", "e", "s", "t", "_", ".", "p", "y">>, <<".", "t", "e", "s", "t", ".", "j", "s">>, <<".", "s", "p", "e", "c", ".", "j", "s">>, <<".", "t", "e", "s", "t", ".", "t", "s">>, <<".", "s", "p", "e", "c", ".", "t", "s">>,
     <<"_", "t", "e", "s", "t", ".", "g", "o">>, <<"t", "e", "s", "t", ".", "j", "a", "v", "a">>, <<"t", "e", "s", "t", "s", ".", "j", "a", "v", "a">>, <<"t", "e", "s", "t", ".", "k", "t">>, <<"_", "s", "p", "e", "c", ".", "r", "b">>, <<"_", "t", "e", "s", "t", ".", "r", "b">>,
     <<"t", "e", "s", "t", ".", "p", "h", "p">>, <<"t", "e", "s", "t", "s", ".", "p", "h", "p">>, <<"t", "e", "s", "t", ".", "c", "s">>}

\* diff_utils.py:104-116
likely_test_file(path) ==
    \/ \E token \in TestPathTokens : Contains(ToLower(path), token)
    \/ \E suffix \in TestFileSuffixes : EndsWith(ToLower(PathName(path)), suffix)

\* infer.py:65-67
ChangedLines(hunk) == added_lines(hunk) \o removed_lines(hunk)

\* infer.py:71-76: the test ids of the added lines, or the default id of the hunk
HunkTestIds(lang, file_patch, hunk, hunk_place) ==
    IF UNION {extract_test_ids(lang, file_patch.path, added_lines(hunk)[k]) :
                 k \in 1..Len(added_lines(hunk))} = {}
    THEN {default_test_id(file_patch.path, hunk_place)}
    ELSE UNION {extract_test_ids(lang, file_patch.path, added_lines(hunk)[k]) :
                   k \in 1..Len(added_lines(hunk))}

\* infer.py:94: a changed line that is neither blank nor a comment
IsNonTrivial(line) ==
    /\ Strip(line) # <<>>
    /\ \A mark \in {<<"#">>, <<"/", "/">>, <<"/", "*">>, <<"*">>} : ~StartsWith(Strip(line), mark)

\* faulty variant: a new file gives no signal
HunkSignals_NoNewFile(lang, file_patch, hunk, test_id) ==
    (IF StartsWith(test_id, file_patch.path \o <<":", ":">>) /\ ~Contains(test_id, <<"h", "u", "n", "k", "_">>)
     THEN {"NEW_TEST_CASE"} ELSE {})
    \cup (IF \E k \in 1..Len(ChangedLines(hunk)) : has_assertion_change(lang, ChangedLines(hunk)[k])
          THEN {"ASSERTION_CHANGED"} ELSE {})
    \cup (IF \E k \in 1..Len(ChangedLines(hunk)) : has_expected_change(ChangedLines(hunk)[k])
          THEN {"EXPECTED_VALUE_CHANGED"} ELSE {})
    \cup (IF \E k \in 1..Len(ChangedLines(hunk)) : IsNonTrivial(ChangedLines(hunk)[k])
          THEN {"TEST_LOGIC_CHANGED"} ELSE {})

\* infer.py:84-96: the signals one hunk gives to the candidate of a test id
HunkSignals(lang, file_patch, hunk, test_id) ==
    (IF file_patch.is_new_file THEN {"NEW_TEST_FILE"} ELSE {})
    \cup (IF StartsWith(test_id, file_patch.path \o <<":", ":">>) /\ ~Contains(test_id, <<"h", "u", "n", "k", "_">>)
          THEN {"NEW_TEST_CASE"} ELSE {})
    \cup (IF \E k \in 1..Len(ChangedLines(hunk)) : has_assertion_change(lang, ChangedLines(hunk)[k])
          THEN {"ASSERTION_CHANGED"} ELSE {})
    \cup (IF \E k \in 1..Len(ChangedLines(hunk)) : has_expected_change(ChangedLines(hunk)[k])
          THEN {"EXPECTED_VALUE_CHANGED"} ELSE {})
    \cup (IF \E k \in 1..Len(ChangedLines(hunk)) : IsNonTrivial(ChangedLines(hunk)[k])
          THEN {"TEST_LOGIC_CHANGED"} ELSE {})

\* the hunks of the files, as (file place, hunk place)
HunkPlaces(patch_files) ==
    UNION {{<<f, h>> : h \in 1..Len(patch_files[f].hunks)} : f \in 1..Len(patch_files)}

\* infer.py:57-69: the hunks that give candidates: a file that is not deleted,
\* a hunk with a changed line
CandidateHunks(patch_files) ==
    {fh \in HunkPlaces(patch_files) :
        /\ ~patch_files[fh[1]].is_deleted_file
        /\ likely_test_file(patch_files[fh[1]].path) \/ patch_files[fh[1]].hunks # <<>>
        /\ ChangedLines(patch_files[fh[1]].hunks[fh[2]]) # <<>>}

\* one pass of the innermost loop, infer.py:78-96
Occurrence(lang, file_patch, hunk, place, test_id) ==
    [key |-> candidate_key(test_id, file_patch.path),
     test_id |-> test_id,
     file_path |-> file_patch.path,
     place |-> place,
     signals |-> HunkSignals(lang, file_patch, hunk, test_id)]

Occurrences(lang, patch_files) ==
    UNION {{Occurrence(lang, patch_files[fh[1]], patch_files[fh[1]].hunks[fh[2]], fh, test_id) :
               test_id \in HunkTestIds(lang, patch_files[fh[1]],
                                       patch_files[fh[1]].hunks[fh[2]], fh[2])} :
           fh \in CandidateHunks(patch_files)}

\* the loop order of two places
PlaceBefore(a, b) == a[1] < b[1] \/ (a[1] = b[1] /\ a[2] < b[2])

\* infer.py:79-81: the occurrence that creates the candidate of a key
FirstOccurrence(occurrences, key) ==
    CHOOSE o \in occurrences :
        /\ o.key = key
        /\ \A other \in occurrences : other.key = key => ~PlaceBefore(other.place, o.place)

\* models.py:32-39: the candidate of a key, with the signals of all its occurrences
TestCandidate(occurrences, key) ==
    [key |-> key,
     test_id |-> FirstOccurrence(occurrences, key).test_id,
     file_path |-> FirstOccurrence(occurrences, key).file_path,
     hunk_index |-> FirstOccurrence(occurrences, key).place[2] - 1,
     signals |-> UNION {o.signals : o \in {x \in occurrences : x.key = key}},
     score |-> 0,
     confidence |-> "low"]

CandidatesOf(occurrences) ==
    {TestCandidate(occurrences, key) : key \in {o.key : o \in occurrences}}

\* infer.py:52-98: the candidates, one for each key
collect_test_candidates(test_text, lang) ==
    CandidatesOf(Occurrences(normalize_language(lang), parse_patch(test_text)))

\* the first character of [A-Za-z_][A-Za-z0-9_]*
IsNameStart(c) == IsWordChar(c) /\ ~IsDigit(c)

\* where the name of \b<keyword>\s+(<name>) starts for a keyword at position k
SymbolStart(line, k, keyword) == k + Len(keyword) + SpaceRunAt(line, k + Len(keyword))

\* \b<keyword>\s+([A-Za-z_][A-Za-z0-9_]*) at position k
NamesSymbolAt(line, k, keyword) ==
    /\ WordAt(line, k, keyword)
    /\ SpaceRunAt(line, k + Len(keyword)) >= 1
    /\ SymbolStart(line, k, keyword) <= Len(line)
    /\ IsNameStart(line[SymbolStart(line, k, keyword)])

\* the name that starts at position p
NameAt(line, p) == Slice(line, p, p + WordRunAt(line, p) - 1)

\* \s*\( after the name that starts at position p
OpensAfterName(line, p) ==
    StartsWithAt(line, p + WordRunAt(line, p) + SpaceRunAt(line, p + WordRunAt(line, p)), <<"(">>)

\* diff_utils.py:82-86: the keywords whose name must be followed by \s*\(
CallableKeywords == {<<"d", "e", "f">>, <<"f", "u", "n", "c", "t", "i", "o", "n">>, <<"f", "u", "n", "c">>, <<"f", "n">>}

\* diff_utils.py:81-101: the names one changed line declares, by the patterns of
\* def, class, function, func and fn (the pattern of the access modifiers is
\* not modelled: no line of the inputs holds one)
LineSymbols(line) ==
    {NameAt(line, SymbolStart(line, kk[1], kk[2])) :
        kk \in {x \in (1..Len(line)) \X (CallableKeywords \cup {<<"c", "l", "a", "s", "s">>}) :
                  /\ NamesSymbolAt(line, x[1], x[2])
                  /\ x[2] \in CallableKeywords
                        => OpensAfterName(line, SymbolStart(line, x[1], x[2]))}}

\* the changed lines of all hunks of the files
AllChangedLines(patch_files) ==
    UNION {{ChangedLines(patch_files[fh[1]].hunks[fh[2]])[k] :
               k \in 1..Len(ChangedLines(patch_files[fh[1]].hunks[fh[2]]))} :
           fh \in HunkPlaces(patch_files)}

\* diff_utils.py:77-101: the lowercased names of at least three characters
extract_changed_symbols(code_patch_text) ==
    {ToLower(token) :
        token \in {name \in UNION {LineSymbols(line) :
                                     line \in AllChangedLines(parse_patch(code_patch_text))} :
                     Len(name) >= 3}}

\* diff_utils.py:123-127
LinkText(test_id, file_path) == ToLower(test_id \o <<" ">> \o file_path)

StrongLink(test_id, file_path, changed_symbols) ==
    \E sym \in changed_symbols : Len(sym) >= 4 /\ Contains(LinkText(test_id, file_path), sym)

WeakLink(test_id, file_path, changed_modules) ==
    \E mod \in changed_modules : Len(mod) >= 4 /\ Contains(LinkText(test_id, file_path), mod)

\* infer.py:111-122: the link signals of a candidate
LinkSignals(candidate, changed_symbols, changed_modules) ==
    (IF StrongLink(candidate.test_id, candidate.file_path, changed_symbols)
     THEN {"SYMBOL_LINK_STRONG"} ELSE {})
    \cup (IF WeakLink(candidate.test_id, candidate.file_path, changed_modules)
          THEN {"MODULE_LINK"} ELSE {})

SignalNames ==
    <<"NEW_TEST_FILE", "NEW_TEST_CASE", "ASSERTION_CHANGED", "EXPECTED_VALUE_CHANGED",
      "TEST_LOGIC_CHANGED", "SYMBOL_LINK_STRONG", "MODULE_LINK">>

RECURSIVE WeightSum(_, _)
\* infer.py:107-122: the weights of the signals, added up
WeightSum(signals, k) ==
    IF k > Len(SignalNames) THEN 0
    ELSE (IF SignalNames[k] \in signals THEN SignalWeight(SignalNames[k]) ELSE 0)
         + WeightSum(signals, k + 1)

\* infer.py:124: max(0.0, min(1.5, score))
ClampScore(score) == IF score < 0 THEN 0 ELSE IF score > 150 THEN 150 ELSE score

\* infer.py:106-125 for a candidate and its signals with the links
WithScore(candidate, signals) ==
    [candidate EXCEPT !.signals = signals,
                      !.score = ClampScore(WeightSum(signals, 1)),
                      !.confidence = confidence_from_score(ClampScore(WeightSum(signals, 1)))]

\* infer.py:101-125
score_candidates(found, changed_symbols, changed_modules) ==
    {WithScore(c, c.signals \cup LinkSignals(c, changed_symbols, changed_modules)) :
        c \in found}

\* infer.py:154: the minimal score of FAIL_TO_PASS_PREDICTED
F2PThreshold == 70

\* infer.py:158: the minimal score of a relevant test
RelevantThreshold == 35

\* models.py:42-46 and infer.py:143-184: the predicted sets of the scored candidates
InferenceResult(scored) ==
    [fail_to_pass_predicted |-> {c.test_id : c \in {x \in scored : x.score >= F2PThreshold}},
     pass_to_pass_predicted |->
         {c.test_id : c \in {x \in scored : x.score >= RelevantThreshold}}
         \ {c.test_id : c \in {x \in scored : x.score >= F2PThreshold}},
     candidate_count |-> Cardinality(scored)]

\* infer.py:134-141: the scored candidates of the patches
ScoredCandidates(full_text, test_text, code_text, lang) ==
    score_candidates(
        collect_test_candidates(test_text, normalize_language(lang)),
        extract_changed_symbols(IF IsBlank(code_text) THEN full_text ELSE code_text),
        extract_changed_modules(extract_changed_files(full_text)))

\* infer.py:128-184
infer_from_patches(full_text, test_text, code_text, lang) ==
    InferenceResult(ScoredCandidates(full_text, test_text, code_text, lang))

-----------------------------------------------------------------------------
(* One call of the patch-only inference: a test patch of one file with at most MaxPatchLines lines after its header, a code patch and a language *)

MaxPatchLines == 3

TestFileHeader == <<"d", "i", "f", "f", " ", "-", "-", "g", "i", "t", " ", "a", "/", "t", "e", "s", "t", "s", "/", "t", "e", "s", "t", "_", "a", "d", "d", "e", "r", ".", "p", "y", " ", "b", "/", "t", "e", "s", "t", "s", "/", "t", "e", "s", "t", "_", "a", "d", "d", "e", "r", ".", "p", "y">>

L_newfile == <<"n", "e", "w", " ", "f", "i", "l", "e", " ", "m", "o", "d", "e", " ", "1", "0", "0", "6", "4", "4">>

L_deletedfile == <<"d", "e", "l", "e", "t", "e", "d", " ", "f", "i", "l", "e", " ", "m", "o", "d", "e", " ", "1", "0", "0", "6", "4", "4">>

L_hunk == <<"@", "@", " ", "-", "0", ",", "0", " ", "+", "1", ",", "2", " ", "@", "@">>

L_def == <<"+", "d", "e", "f", " ", "t", "e", "s", "t", "_", "a", "d", "d", "e", "r", "(", ")", ":">>

L_assert == <<"+", " ", " ", " ", " ", "a", "s", "s", "e", "r", "t", " ", "a", "d", "d", "e", "r", "(", "1", ")", " ", "=", "=", " ", "2">>

\* an added line whose text is "++x"
L_plusplus == <<"+", "+", "+", "x">>

L_removed == <<"-", "#", " ", "o", "l", "d">>

PatchLinePool == {L_newfile, L_deletedfile, L_hunk, L_def, L_assert, L_plusplus, L_removed}

\* the test patches: the header of the test file and the lines after it
TestPatches ==
    {<<TestFileHeader>> \o body :
        body \in UNION {[1..n -> PatchLinePool] : n \in 0..MaxPatchLines}}

AdderPatch ==
    <<<<"d", "i", "f", "f", " ", "-", "-", "g", "i", "t", " ", "a", "/", "c", "a", "l", "c", "/", "a", "d", "d", "e", "r", ".", "p", "y", " ", "b", "/", "c", "a", "l", "c", "/", "a", "d", "d", "e", "r", ".", "p", "y">>,
      <<"@", "@", " ", "-", "1", ",", "1", " ", "+", "1", ",", "2", " ", "@", "@">>,
      <<"+", "d", "e", "f", " ", "a", "d", "d", "e", "r", "(", "a", ")", ":">>,
      <<"+", " ", " ", " ", " ", "r", "e", "t", "u", "r", "n", " ", "a", " ", "+", " ", "1">>>>

CodePatches == {<<>>, AdderPatch}

InfLanguages == {<<"p", "y">>, <<"g", "o">>}

InfInit ==
    /\ inf_pc = "patches"
    /\ test_patch \in TestPatches
    /\ code_patch \in CodePatches
    /\ full_patch = test_patch \o code_patch
    /\ inf_language \in InfLanguages
    /\ inf_candidates = {}
    /\ inference = InferenceResult({})
    /\ NmIdle
    /\ CatIdle
    /\ DiffIdle
    /\ IdxIdle
    /\ DdIdle

\* candidates = _collect_test_candidates(test_patch, normalized_language)
CollectTestCandidates ==
    /\ inf_pc = "patches"
    /\ inf_candidates' = collect_test_candidates(test_patch, normalize_language(inf_language))
    /\ inf_pc' = "collected"
    /\ UNCHANGED <<full_patch, test_patch, code_patch, inf_language, inference>>

\* _score_candidates(candidates, changed_symbols, changed_modules)
ScoreCandidates ==
    /\ inf_pc = "collected"
    /\ inf_candidates' =
           score_candidates(
               inf_candidates,
               extract_changed_symbols(IF IsBlank(code_patch) THEN full_patch ELSE code_patch),
               extract_changed_modules(extract_changed_files(full_patch)))
    /\ inf_pc' = "scored"
    /\ UNCHANGED <<full_patch, test_patch, code_patch, inf_language, inference>>

\* infer_from_patches(full_patch, test_patch, code_patch, language)
InferFromPatches ==
    /\ inf_pc = "patches"
    /\ inf_candidates' = ScoredCandidates(full_patch, test_patch, code_patch, inf_language)
    /\ inference' = infer_from_patches(full_patch, test_patch, code_patch, inf_language)
    /\ inf_pc' = "inferred"
    /\ UNCHANGED <<full_patch, test_patch, code_patch, inf_language>>

InfNext ==
    (CollectTestCandidates \/ ScoreCandidates \/ InferFromPatches)
    /\ UNCHANGED <<nm_vars, cat_vars, diff_vars, idx_vars, dd_vars>>

SpecInfer == InfInit /\ [][InfNext]_vars

-----------------------------------------------------------------------------
(* Properties of the patch-only inference, checked under SpecInfer *)

\* infer_from_patches has returned
Inferred == inf_pc = "inferred"

\* the files of the test patch that are newly added and not deleted
NewTestFiles ==
    {fp \in ItemsOf(parse_patch(test_patch)) : fp.is_new_file /\ ~fp.is_deleted_file}

\* the file has a hunk with a line counted as added or as removed
HasChangedHunk(fp) ==
    \E h \in 1..Len(fp.hunks) : added_lines(fp.hunks[h]) \o removed_lines(fp.hunks[h]) # <<>>

\* every candidate of a newly added file is predicted to go from fail to pass
NewFileCandidatesPredicted ==
    \A c \in inf_candidates :
        c.file_path \in {fp.path : fp \in NewTestFiles}
            => c.test_id \in inference.fail_to_pass_predicted

PredictedDisjoint ==
    inference.fail_to_pass_predicted \cap inference.pass_to_pass_predicted = {}

\* C22 as stated: every candidate of a changed hunk of a newly added file of
\* the test patch is in FAIL_TO_PASS_PREDICTED, a test patch that adds a new
\* test file always gives a FAIL_TO_PASS_PREDICTED that is not empty, and the
\* two predicted lists are disjoint
C22_NewFileAlwaysPredicted ==
    Inferred =>
        /\ NewFileCandidatesPredicted
        /\ NewTestFiles # {} => inference.fail_to_pass_predicted # {}
        /\ PredictedDisjoint

\* C22: every candidate of a newly added file of the test patch is in
\* FAIL_TO_PASS_PREDICTED; a test patch that adds a file with a hunk holding
\* a line counted as added or removed (a "+" or "-" line that does not start
\* with "+++" or "---") gives a FAIL_TO_PASS_PREDICTED that is not empty; the
\* two predicted lists are disjoint
C22_NewFilePredicted ==
    Inferred =>
        /\ NewFileCandidatesPredicted
        /\ (\E fp \in NewTestFiles : HasChangedHunk(fp))
               => inference.fail_to_pass_predicted # {}
        /\ PredictedDisjoint

\* a new file whose only changed line is a removed comment: its candidate has
\* no signal of its own but the one of the new file
C22_Witness ==
    /\ Inferred
    /\ \E fp \in NewTestFiles :
           /\ HasChangedHunk(fp)
           /\ \A h \in 1..Len(fp.hunks) : added_lines(fp.hunks[h]) = <<>>
    /\ \E c \in inf_candidates :
           /\ "NEW_TEST_FILE" \in c.signals
           /\ "TEST_LOGIC_CHANGED" \notin c.signals
           /\ c.test_id \in inference.fail_to_pass_predicted

-----------------------------------------------------------------------------
(* Properties of the two generated patches, checked under SpecDiff *)

\* both patches of the diff have been generated
Generated == diff_pc = "patches"

\* the hunks of the files that are not binary, as (file place, hunk place)
SplitHunks ==
    UNION {{<<f, h>> : h \in 1..Len(files[f].hunks)} :
           f \in {k \in 1..Len(files) : ~files[k].is_binary}}

\* the number of hunk headers among the lines of a patch
HunkCount(patch) == Len(SelectSeq(patch, IsHunkHeaderLine))

\* C23: each hunk of each file that is not binary is in exactly one of the
\* patch of generate_test_patch_from_hunks (its TEST and MIXED hunks) and the
\* patch of generate_code_patch_from_hunks (its CODE and UNKNOWN hunks): the
\* test patch is the files with their test and mixed hunks, the code patch
\* the files with their code and unknown hunks, every hunk has one of the
\* four types, and the two patches hold as many hunks as the files do
C23_HunksSplit ==
    Generated =>
        /\ generated.test = <<SelectedFiles(files, {"test", "mixed"})>>
        /\ generated.code = <<SelectedFiles(files, {"code", "unknown"})>>
        /\ \A fh \in SplitHunks :
              files[fh[1]].hunks[fh[2]].hunk_type \in {"test", "mixed", "code", "unknown"}
        /\ HunkCount(generated.test[1]) + HunkCount(generated.code[1])
              = Cardinality(SplitHunks)

\* a file with a hunk in the test patch and an unknown or code hunk in the
\* code patch
C23_Witness ==
    /\ Generated
    /\ \E fh \in SplitHunks, gh \in SplitHunks :
          /\ fh[1] = gh[1]
          /\ files[fh[1]].hunks[fh[2]].hunk_type \in {"test", "mixed"}
          /\ files[gh[1]].hunks[gh[2]].hunk_type \in {"code", "unknown"}
    /\ HunkCount(generated.test[1]) >= 1
    /\ HunkCount(generated.code[1]) >= 1

-----------------------------------------------------------------------------
(* Properties of the weighted scorer, checked under SpecDiff *)

\* where the pattern matches in the hunk
InAdded(pattern, hunk) == PatternSearch(pattern, AddedContent(hunk))

InContext(pattern, hunk) ==
    PatternSearch(pattern, ContextContent(hunk)) \/ PatternSearch(pattern, hunk.context)

InRemoved(pattern, hunk) == PatternSearch(pattern, RemovedContent(hunk))

\* the stated contribution of a pattern, in two-hundredths: the weight for a
\* match in the added lines, half of it for a match in the context lines or
\* in the header context only, nothing otherwise
StatedContribution(pattern, hunk) ==
    IF InAdded(pattern, hunk) THEN 2 * pattern.weight
    ELSE IF InContext(pattern, hunk) THEN pattern.weight
    ELSE 0

RECURSIVE StatedScore(_, _)
StatedScore(patterns, hunk) ==
    IF patterns = <<>> THEN 0
    ELSE StatedContribution(patterns[1], hunk) + StatedScore(Tail(patterns), hunk)

RECURSIVE WeightTotal(_)
\* the sum of all weights of the list, in two-hundredths
WeightTotal(patterns) ==
    IF patterns = <<>> THEN 0 ELSE 2 * patterns[1].weight + WeightTotal(Tail(patterns))

PatternsOf(file) == LanguageTestPatterns(LanguageOf(file)[1])

\* C24: for a hunk classified by classify_hunk, the category and the
\* confidence are those of the score that adds, for each pattern of the
\* language, the weight for a match in the added lines, half the weight for
\* a match in the context lines or the header context only and nothing
\* otherwise (a match in the removed lines adds nothing), divided by the sum
\* of all weights; the score is in [0, 1]
C24_WeightedScore ==
    diff_pc = "classified" =>
        \A k \in 1..Len(files) :
            ScoredFile(files[k]) =>
                \A h \in 1..Len(files[k].hunks) :
                    /\ files[k].hunks[h]
                         = ByThresholds(files[k].hunks[h],
                                        StatedScore(PatternsOf(files[k]), files[k].hunks[h]),
                                        WeightTotal(PatternsOf(files[k])))
                    /\ WeightTotal(PatternsOf(files[k])) > 0
                    /\ StatedScore(PatternsOf(files[k]), files[k].hunks[h]) >= 0
                    /\ StatedScore(PatternsOf(files[k]), files[k].hunks[h])
                         <= WeightTotal(PatternsOf(files[k]))

\* a hunk with a pattern that matches its removed lines alone and a pattern
\* that matches its header context alone
C24_Witness ==
    /\ diff_pc = "classified"
    /\ \E k \in 1..Len(files) :
          /\ ScoredFile(files[k])
          /\ \E h \in 1..Len(files[k].hunks) :
                /\ \E p \in 1..Len(PatternsOf(files[k])) :
                      /\ InRemoved(PatternsOf(files[k])[p], files[k].hunks[h])
                      /\ ~InAdded(PatternsOf(files[k])[p], files[k].hunks[h])
                      /\ ~InContext(PatternsOf(files[k])[p], files[k].hunks[h])
                /\ \E p \in 1..Len(PatternsOf(files[k])) :
                      /\ PatternSearch(PatternsOf(files[k])[p], files[k].hunks[h].context)
                      /\ ~InAdded(PatternsOf(files[k])[p], files[k].hunks[h])
                /\ files[k].hunks[h].hunk_type = "code"

-----------------------------------------------------------------------------
(* Properties of the choice between the scan and the scorer, checked under SpecDiff *)

\* the file has a language, given or detected
HasLanguage(file) == LanguageOf(file) # <<>>

\* what the specialized scan gives the hunk of the file
ByScan(file, hunk) ==
    DefaultToTest(ClassifyRustHunk(hunk), is_test_filepath(FilePath(file)))

\* what the stateless weighted scorer gives the hunk of the file
ByScorer(file, hunk) ==
    DefaultToTest(IF PatternsOf(file) = <<>> THEN Classified(hunk, "unknown", ConfidenceZero)
                  ELSE ByThresholds(hunk, StatedScore(PatternsOf(file), hunk),
                                    WeightTotal(PatternsOf(file))),
                  is_test_filepath(FilePath(file)))

\* C25 as stated: the hunks of a file of an inline-test language (rust,
\* python, go, elixir, d) are classified by the specialized scan
C25_InlineLanguagesScanned ==
    diff_pc = "classified" =>
        \A k \in 1..Len(files) :
            (HasLanguage(files[k]) /\ LanguageOf(files[k])[1] \in InlineTestLanguages) =>
                \A h \in 1..Len(files[k].hunks) :
                    files[k].hunks[h] = ByScan(files[k], files[k].hunks[h])

\* C25: the hunks of a rust file are classified by the specialized scan; the
\* hunks of a file of any other language, the other inline-test languages
\* included, are classified by the stateless weighted scorer
C25_RustAloneScanned ==
    diff_pc = "classified" =>
        \A k \in 1..Len(files) :
            HasLanguage(files[k]) =>
                \A h \in 1..Len(files[k].hunks) :
                    files[k].hunks[h] =
                        IF LanguageOf(files[k])[1] = "rust"
                        THEN ByScan(files[k], files[k].hunks[h])
                        ELSE ByScorer(files[k], files[k].hunks[h])

\* a file of the inline-test language d with a hunk whose header context
\* names a test, which the scan would make a test hunk and the scorer makes
\* a code hunk
C25_Witness ==
    /\ diff_pc = "classified"
    /\ \E k \in 1..Len(files) :
          /\ LanguageOf(files[k]) = <<"d">>
          /\ \E h \in 1..Len(files[k].hunks) :
                /\ ContextIsTest(files[k].hunks[h].context)
                /\ files[k].hunks[h].hunk_type = "code"

-----------------------------------------------------------------------------
(* Properties of the classification run by concurrent workers, checked under SpecDiff *)

\* the files as parse_diff returns them: no hunk has labels
Unlabelled(file_diffs) ==
    [f \in 1..Len(file_diffs) |->
        [file_diffs[f] EXCEPT !.hunks =
            [h \in 1..Len(file_diffs[f].hunks) |->
                Classified(file_diffs[f].hunks[h], "unknown", ConfidenceZero)]]]

\* the labels of the sequential run of classify_all_hunks
SequentialLabels == classify_all_hunks(Unlabelled(files), language_hint)

Labels(hunk) == <<hunk.hunk_type, hunk.confidence>>

\* C26: whatever the order in which the hunks are classified, a hunk that no
\* worker has reached is as parse_diff left it, a hunk that is finished has
\* the labels of the sequential run, and two hunks of a file with the same
\* header context and the same lines end with the same labels
C26_OrderIndependent ==
    diff_pc = "classifying" =>
        /\ \A fh \in AllHunks(files) \ stage.scored :
              Labels(files[fh[1]].hunks[fh[2]]) = <<"unknown", ConfidenceZero>>
        /\ \A fh \in stage.done :
              files[fh[1]].hunks[fh[2]] = SequentialLabels[fh[1]].hunks[fh[2]]
        /\ \A fh \in stage.done, gh \in stage.done :
              (/\ fh[1] = gh[1]
               /\ files[fh[1]].hunks[fh[2]].context = files[gh[1]].hunks[gh[2]].context
               /\ files[fh[1]].hunks[fh[2]].lines = files[gh[1]].hunks[gh[2]].lines)
                  => Labels(files[fh[1]].hunks[fh[2]]) = Labels(files[gh[1]].hunks[gh[2]])

\* a rust file whose second hunk is finished before its first hunk is
\* reached, the first hunk being one the scan makes a test hunk
C26_Witness ==
    /\ diff_pc = "classifying"
    /\ \E f \in 1..Len(files) :
          /\ LanguageOf(files[f]) = <<"rust">>
          /\ Len(files[f].hunks) >= 2
          /\ <<f, 2>> \in stage.done
          /\ <<f, 1>> \notin stage.scored
          /\ ContextIsTest(files[f].hunks[1].context)
          /\ files[f].hunks[2].hunk_type = "code"

-----------------------------------------------------------------------------
(* The frame of the file header while a hunk is read, checked under SpecDiff *)

\* parse_diff is about to read a line of the current file after its first
\* hunk header, and the line is not a diff --git line
ReadsInsideHunks ==
    /\ diff_pc = "loop"
    /\ i <= Len(diff_content)
    /\ current_file # <<>>
    /\ current_hunk # <<>>
    /\ ~IsDiffHeader(diff_content[i])

\* the header of the file
HeaderOf(file) == <<file.old_path, file.new_path, file.header_lines, file.extended_header>>

\* C27: once the first hunk header of a file is read, no line before the
\* next diff --git line changes old_path, new_path, header_lines or
\* extended_header of the file
C27_HeaderFrame ==
    [][ReadsInsideHunks => HeaderOf(current_file'[1]) = HeaderOf(current_file[1])]_vars

-----------------------------------------------------------------------------
(* Deduplication of test outcomes, container_runner.py *)

\* the longest outcome list of a run
MaxOutcomes == 2

\* the test names a multi-module build reports, some of them more than once
ReportedTests == {"AppIT.login", "AppIT.logout", "CoreTest.parse"}

\* the lists of at most n reported tests, in every order and with repetition
RECURSIVE OutcomeLists(_)
OutcomeLists(n) ==
    IF n = 0 THEN {<<>>}
    ELSE OutcomeLists(n - 1)
         \cup {Append(l, t) : l \in {s \in OutcomeLists(n - 1) : Len(s) = n - 1},
                              t \in ReportedTests}

\* the tests a list names
ListedTests(l) == {l[k] : k \in 1..Len(l)}

\* test_outcomes.setdefault(test, set()).add(outcome), lines 549, 551, 553: a
\* dict keeps its keys in the order of their first insertion, so it is a
\* sequence of <<test, outcomes>> pairs
SetDefaultAdd(d, test, outcome) ==
    IF \E k \in 1..Len(d) : d[k][1] = test
    THEN [k \in 1..Len(d) |->
            IF d[k][1] = test THEN <<test, d[k][2] \cup {outcome}>> ELSE d[k]]
    ELSE Append(d, <<test, {outcome}>>)

\* one of the three loops of lines 548-553
RECURSIVE CollectOutcomesOf(_, _, _)
CollectOutcomesOf(d, l, outcome) ==
    IF l = <<>> THEN d
    ELSE CollectOutcomesOf(SetDefaultAdd(d, Head(l), outcome), Tail(l), outcome)

\* lines 546-553
CollectedOutcomes(p, f, s) ==
    CollectOutcomesOf(CollectOutcomesOf(CollectOutcomesOf(<<>>, p, "passed"),
                                        f, "failed"),
                      s, "skipped")

\* the priority with failed before passed
ResolvedOutcome_FailedFirst(outcomes) ==
    IF "failed" \in outcomes THEN "failed"
    ELSE IF "passed" \in outcomes THEN "passed"
    ELSE "skipped"

\* the if / elif / else of lines 561-569
ResolvedOutcome(outcomes) ==
    IF "passed" \in outcomes THEN "passed"
    ELSE IF "failed" \in outcomes THEN "failed"
    ELSE "skipped"

\* the tests of the dict that resolve to one outcome, in the order of the dict,
\* lines 556-569
RECURSIVE FinalList(_, _)
FinalList(d, outcome) ==
    IF d = <<>> THEN <<>>
    ELSE IF ResolvedOutcome(Head(d)[2]) = outcome
         THEN <<Head(d)[1]>> \o FinalList(Tail(d), outcome)
         ELSE FinalList(Tail(d), outcome)

\* lines 556-571
ResolvedLists(d) ==
    [passed |-> FinalList(d, "passed"),
     failed |-> FinalList(d, "failed"),
     skipped |-> FinalList(d, "skipped")]

\* _deduplicate_test_outcomes, lines 528-571
deduplicate_test_outcomes(p, f, s) == ResolvedLists(CollectedOutcomes(p, f, s))

DedupInit ==
    /\ dd_pc = "parsed"
    /\ passed \in OutcomeLists(MaxOutcomes)
    /\ failed \in OutcomeLists(MaxOutcomes)
    /\ skipped \in OutcomeLists(MaxOutcomes)
    /\ test_outcomes = <<>>
    /\ deduplicated = [passed |-> <<>>, failed |-> <<>>, skipped |-> <<>>]
    /\ NmIdle
    /\ CatIdle
    /\ DiffIdle
    /\ IdxIdle
    /\ InfIdle

\* lines 546-553: the outcomes of every test are collected
CollectOutcomes ==
    /\ dd_pc = "parsed"
    /\ test_outcomes' = CollectedOutcomes(passed, failed, skipped)
    /\ dd_pc' = "collected"
    /\ UNCHANGED <<passed, failed, skipped, deduplicated>>

\* lines 555-571: every test is resolved to one outcome
ResolveOutcomes ==
    /\ dd_pc = "collected"
    /\ deduplicated' = ResolvedLists(test_outcomes)
    /\ dd_pc' = "deduplicated"
    /\ UNCHANGED <<passed, failed, skipped, test_outcomes>>

DedupNext ==
    (CollectOutcomes \/ ResolveOutcomes)
    /\ UNCHANGED <<nm_vars, cat_vars, diff_vars, idx_vars, inf_vars>>

SpecDedup == DedupInit /\ [][DedupNext]_vars

-----------------------------------------------------------------------------
(* The deduplicated outcome lists, checked under SpecDedup *)

Deduplicated == dd_pc = "deduplicated"

\* a list names no test twice
NoDuplicates(l) == \A j, k \in 1..Len(l) : l[j] = l[k] => j = k

\* the tests of the three input lists
InPassed == ListedTests(passed)
InFailed == ListedTests(failed)
InSkipped == ListedTests(skipped)

\* the tests of the three output lists
OutPassed == ListedTests(deduplicated.passed)
OutFailed == ListedTests(deduplicated.failed)
OutSkipped == ListedTests(deduplicated.skipped)

\* C28: _deduplicate_test_outcomes returns three lists without duplicates that
\* are pairwise disjoint and whose union is the union of the three input
\* lists; a test is in the passed output iff it is in the passed input, in the
\* failed output iff it is in the failed input and not in the passed input,
\* and in the skipped output iff it is in the skipped input only
C28_DisjointByPriority ==
    Deduplicated =>
        /\ NoDuplicates(deduplicated.passed)
        /\ NoDuplicates(deduplicated.failed)
        /\ NoDuplicates(deduplicated.skipped)
        /\ OutPassed \cap OutFailed = {}
        /\ OutPassed \cap OutSkipped = {}
        /\ OutFailed \cap OutSkipped = {}
        /\ OutPassed \cup OutFailed \cup OutSkipped = InPassed \cup InFailed \cup InSkipped
        /\ OutPassed = InPassed
        /\ OutFailed = InFailed \ InPassed
        /\ OutSkipped = InSkipped \ (InPassed \cup InFailed)

\* one test passed twice and failed once, another failed and was skipped, a
\* third was only skipped
C28_Witness ==
    /\ Deduplicated
    /\ \E t \in InPassed \cap InFailed : Len(passed) > Cardinality(InPassed)
    /\ (InFailed \cap InSkipped) \ InPassed # {}
    /\ InSkipped \ (InPassed \cup InFailed) # {}
    /\ deduplicated.skipped # <<>>
    /\ deduplicated.failed # <<>>

-----------------------------------------------------------------------------
(* The two fallback categorizations, checked under SpecCat *)

\* categorize_tests was called without a test-only result and ran the legacy
\* two-run code
LegacyCall == cat_pc = "legacy"

\* what categorize_tests_three_run returns for the reports, the patch content
\* and the language of the call when its run-2 report is run2
ThreeRunWith(run2) ==
    categorize_tests_three_run(base_result, run2, pr_result, patch_content, language)

\* the names the base report lists as passed and as failed and the full report
\* lists as passed
MixedInBase == PassedOf(base_result) \cap FailedOf(base_result) \cap PassedOf(pr_result)

\* C29: for every baseline report, full report, patch content and language,
\* the legacy two-run code of categorize_tests (test_patch_only_result=None)
\* returns the FAIL_TO_PASS and PASS_TO_PASS sets that
\* categorize_tests_three_run returns with an absent (None) and with an empty
\* ({}) run-2 report
C29_FallbacksAgree ==
    LegacyCall =>
        /\ cat_result = ThreeRunWith(NoneResult)
        /\ cat_result = ThreeRunWith(DictResult(<<>>))

\* a legacy call on two reports with lists, a name of mixed outcome in the base
\* run that passes in the full run, and a patch whose filter keeps a test
C29_Witness ==
    /\ LegacyCall
    /\ BothRunsPresent
    /\ MixedInBase # {}
    /\ PatchGiven(patch_content)
    /\ P2P # {}

-----------------------------------------------------------------------------
(* The relevance decision and the module index, checked under SpecIndex *)

\* the module sets the decision is compared over: no module, every single
\* module of the index derived from the changed files, the index without one
\* of its modules, and the index of every changed file there is
ModuleSets ==
    {{}, extract_changed_modules(IdxChangedFiles)}
    \cup {{m} : m \in idx_modules}
    \cup {idx_modules \ {m} : m \in idx_modules}

\* the modules of the derived index that the name of the test holds
ModulesInTestName == {m \in idx_modules : Contains(ToLower(idx_test), m)}

====
